---- MODULE Spec2Model ----
(***************************************************************************)
(* The lotto645 updater (scripts/update_lotto645.mjs, the multi-source     *)
(* revision with 2-of-3 consensus): the run of main() as a state machine,  *)
(* and its pure helpers as operators.                                      *)
(*                                                                         *)
(* A draw record is [drwNo, date, numbers, bonus], as normalizeDraw        *)
(* returns it.  Adapters are named by their index in SOURCES.              *)
(***************************************************************************)
EXTENDS Integers, Sequences, FiniteSets, TLC

\* ------------------------------------------------------------------ bounds

\* Highest draw number of a loaded ledger.
MaxLocalNo == 2
\* Longest bulk (all.json) payload.
MaxBulkLen == 2
\* pickConsensusLatest taken alone: longest result list, highest draw number.
MaxResults == 3
MaxPickNo == 2
\* the longest ledger and the longest record list handed to mergeByNo taken alone
MaxMergeLen == 2
\* makeFreq taken alone: the most draws of one kind at an end of the ledger,
\* and the most draws of any kind at the other end
MaxFreqPad == 30
MaxFreqLen == 2
\* the longest all.json array handed to tryAllFromSource taken alone
MaxAllLen == 2
\* fetchRangeConcurrently taken alone: the highest from, the highest to and
\* the highest concurrency
MaxRangeFrom == 2
MaxRangeTo == 3
MaxConcurrency == 2
\* findMaxDrawNo taken alone: the most draws of a small source, and the highest
\* lastKnown
MaxFindM == 40
MaxLastKnown == 3

\* ------------------------------------------------------- program constants

NumSources == 3
BOOTSTRAP_GAP_THRESHOLD == 120
VALIDATE_LAST_K == 5
\* fetchJsonGuarded: the default of its parameter retries
retries == 2
\* findMaxDrawNo: the draws probed beyond lastKnown, and the highest probe of
\* the exponential search
PROBE_LIMIT == 50
ABORT_HIGH == 100000

SOURCES == <<"smok95-pages", "smok95-raw", "smok95-jsdelivr">>

\* ------------------------------------------------------------ draw records

\* The contents a mirror may serve for one draw: variant v differs from the
\* others in its main numbers and in its bonus.
Payloads == {1, 2}
PickPayloads == {1, 2, 3}

NumbersOf(v) == <<v, v + 1, v + 2, v + 3, v + 4, v + 5>>
BonusOf(v) == 45 - v
DateOf(v) == "2024-01-06"

Rec(n, v) == [drwNo |-> n, date |-> DateOf(v), numbers |-> NumbersOf(v), bonus |-> BonusOf(v)]

\* drawSig: drwNo | numbers | bonus | date, concatenated in this order.
drawSig(d) == <<d.drwNo, d.numbers, d.bonus, d.date>>

\* What Number(x) is for an x that is no number: the one value here that is
\* not finite. No draw number, main number or bonus of a mirror is that low.
NaN == -1000
IsFinite(x) == x # NaN

\* ---------------------------------------------------------- list helpers

Max(S) == CHOOSE x \in S : \A y \in S : y <= x

RECURSIVE DistinctInOrder(_)
\* The keys of a Map filled from s: the distinct elements, by first insertion.
DistinctInOrder(s) ==
  IF s = <<>> THEN <<>>
  ELSE LET init == DistinctInOrder(SubSeq(s, 1, Len(s) - 1))
           x == s[Len(s)]
       IN IF \E i \in 1..Len(init) : init[i] = x THEN init ELSE Append(init, x)

\* The number a comparator returns for (a, b); by names the comparator.
Compare(by, a, b) ==
  CASE by = "a.drwNo - b.drwNo" -> a.drwNo - b.drwNo
    [] by = "b - a" -> b - a
    [] by = "b[1].length - a[1].length" -> Len(b[2]) - Len(a[2])
    [] by = "a[1].length - b[1].length" -> Len(a[2]) - Len(b[2])
    [] by = "a - b" -> a - b

RECURSIVE InsertBy(_, _, _)
\* x put into the sorted list s behind every element that the comparator does
\* not put after it.
InsertBy(by, s, x) ==
  IF s = <<>> THEN <<x>>
  ELSE IF Compare(by, x, s[Len(s)]) < 0 THEN Append(InsertBy(by, SubSeq(s, 1, Len(s) - 1), x), s[Len(s)])
  ELSE Append(s, x)

RECURSIVE StableSort(_, _)
\* Array.prototype.sort (stable): elements the comparator holds equal keep
\* their input order.
StableSort(by, s) ==
  IF s = <<>> THEN <<>>
  ELSE InsertBy(by, StableSort(by, SubSeq(s, 1, Len(s) - 1)), s[Len(s)])

ByNoAsc == "a.drwNo - b.drwNo"
NumDesc == "b - a"
CountDesc == "b[1].length - a[1].length"
NumAsc == "a - b"

\* max drwNo of a ledger, 0 when it is empty
LastNo(ds) == IF ds = <<>> THEN 0 ELSE Max({ds[i].drwNo : i \in 1..Len(ds)})

Keys(ds) == {ds[i].drwNo : i \in 1..Len(ds)}
\* draws.find(d => d.drwNo === n): the first record numbered n
Find(ds, n) == ds[CHOOSE i \in 1..Len(ds) : ds[i].drwNo = n /\ \A j \in 1..(i - 1) : ds[j].drwNo # n]

\* ------------------------------------------------------------ normalizeDraw

\* A value of a parsed JSON payload, or undefined (the field is absent): its
\* type, and its number or its text.
Raw(t, num, text) == [t |-> t, num |-> num, text |-> text]
Undefined == Raw("undefined", 0, "")
JsonNull == Raw("null", 0, "")
JsonNum(x) == Raw("number", x, "")
JsonStr(x) == Raw("string", 0, x)

\* Number(text) for the texts of the payloads
StrToNum(text) ==
  CASE text = "" -> 0
    [] text = "7" -> 7
    [] OTHER -> NaN

\* Number(x)
ToNumber(x) ==
  CASE x.t = "undefined" -> NaN
    [] x.t = "null" -> 0
    [] x.t = "number" -> x.num
    [] x.t = "string" -> StrToNum(x.text)

\* s.length >= 10 ? s.slice(0, 10) : s, for the texts of the payloads
Slice10(text) ==
  IF text = "2024-01-06T00:00:00Z" THEN "2024-01-06" ELSE text

\* toYmd: <<>> is null
toYmd(isoOrYmd) ==
  IF \/ isoOrYmd.t \in {"undefined", "null"}
     \/ isoOrYmd.t = "string" /\ isoOrYmd.text = ""
     \/ isoOrYmd.t = "number" /\ isoOrYmd.num = 0
  THEN <<>>
  ELSE <<Slice10(isoOrYmd.text)>>

\* the orders in which s can be listed
OrdersOf(s) ==
  {[i \in 1..Len(s) |-> s[f[i]]] :
     f \in {g \in [1..Len(s) -> 1..Len(s)] : \A i, j \in 1..Len(s) : g[i] = g[j] => i = j}}

\* nums.slice().sort((a, b) => a - b): with a NaN among nums the comparator
\* is not consistent and the order of the result is the implementation's.
SortNums(nums) ==
  IF \A i \in 1..Len(nums) : IsFinite(nums[i])
  THEN {StableSort(NumAsc, nums)}
  ELSE OrdersOf(nums)

Invalid == [valid |-> FALSE]

\* normalizeDraw(item): what it may return, Invalid being null. item?.f of an
\* item that is null is undefined.
normalizeDraw(item) ==
  LET drwNo == ToNumber(IF item.t = "object" THEN item.draw_no ELSE Undefined)
      numbers == IF item.t = "object" THEN item.numbers ELSE [t |-> "undefined", a |-> <<>>]
      nums == IF numbers.t = "array" THEN [i \in 1..Len(numbers.a) |-> ToNumber(numbers.a[i])] ELSE <<>>
      bonus == ToNumber(IF item.t = "object" THEN item.bonus_no ELSE Undefined)
      date == toYmd(IF item.t = "object" THEN item.date ELSE Undefined)
  IN IF ~IsFinite(drwNo) \/ Len(nums) # 6 \/ date = <<>>
     THEN {Invalid}
     ELSE {[valid |-> TRUE, draw |-> [drwNo |-> drwNo, date |-> date[1], numbers |-> sorted, bonus |-> bonus]] :
             sorted \in SortNums(nums)}

\* ------------------------------------------------------------- mergeByNo

RECURSIVE MapSetAll(_, _)
\* m.set(d.drwNo, d) for every d of ds, on the Map m kept as the list of its
\* values in insertion order: a key already there keeps its place.
MapSetAll(m, ds) ==
  IF ds = <<>> THEN m
  ELSE LET d == Head(ds)
           m2 == IF ~IsFinite(d.drwNo) THEN m
                 ELSE IF \E i \in 1..Len(m) : m[i].drwNo = d.drwNo
                 THEN [i \in 1..Len(m) |-> IF m[i].drwNo = d.drwNo THEN d ELSE m[i]]
                 ELSE Append(m, d)
       IN MapSetAll(m2, Tail(ds))

\* a variant of mergeByNo that sorts the two lists together, with no Map
mergeByNoAppended(existingDraws, newDraws) ==
  StableSort(ByNoAsc, SelectSeq(existingDraws \o newDraws, LAMBDA d : IsFinite(d.drwNo)))

\* a variant of mergeByNo that returns the Map's values unsorted
mergeByNoUnsorted(existingDraws, newDraws) ==
  MapSetAll(MapSetAll(<<>>, existingDraws), newDraws)

\* a variant of mergeByNo that keeps only the incoming records
mergeByNoIncomingOnly(existingDraws, newDraws) ==
  StableSort(ByNoAsc, MapSetAll(<<>>, newDraws))

\* a variant of mergeByNo that sets the incoming records first
mergeByNoExistingWins(existingDraws, newDraws) ==
  StableSort(ByNoAsc, MapSetAll(MapSetAll(<<>>, newDraws), existingDraws))

mergeByNo(existingDraws, newDraws) ==
  StableSort(ByNoAsc, MapSetAll(MapSetAll(<<>>, existingDraws), newDraws))

\* --------------------------------------------------- pickConsensusLatest

\* The entries of a Map from key to the list of the results with that key;
\* keys[i] is the key of rs[i].
GroupBy(keys, rs) ==
  LET ks == DistinctInOrder(keys)
      pairs == [i \in 1..Len(rs) |-> <<keys[i], rs[i]>>]
  IN [k \in 1..Len(ks) |->
        LET sel == SelectSeq(pairs, LAMBDA q : q[1] = ks[k])
        IN <<ks[k], [i \in 1..Len(sel) |-> sel[i][2]]>>]

ResultNo(r) == r.draw.drwNo
ResultSig(r) == drawSig(r.draw)

\* FirstWithTwo without its threshold: the highest number wins whatever its support
FirstWithAny(byNo, nos) == IF nos = <<>> THEN 0 ELSE Head(nos)

RECURSIVE FirstWithTwo(_, _)
\* the first n of nos with at least 2 results, 0 (null) when there is none
FirstWithTwo(byNo, nos) ==
  IF nos = <<>> THEN 0
  ELSE LET g == CHOOSE k \in 1..Len(byNo) : byNo[k][1] = Head(nos)
       IN IF Len(byNo[g][2]) >= 2 THEN Head(nos) ELSE FirstWithTwo(byNo, Tail(nos))

\* RankSigs with the comparator reversed (a[1].length - b[1].length)
CountAsc == "a[1].length - b[1].length"
RankSigsAscending(bySig) == StableSort(CountAsc, bySig)

\* RankSigs by a sort that puts the later of two equal counts first
RankSigsTieLast(bySig) ==
  LET asc == StableSort(CountAsc, bySig)
  IN [i \in 1..Len(asc) |-> asc[Len(asc) + 1 - i]]

\* the signature ranking of pickConsensusLatest and of the tail validation
RankSigs(bySig) == StableSort(CountDesc, bySig)

pickConsensusLatest(latestResults) ==
  LET byNo == GroupBy([i \in 1..Len(latestResults) |-> ResultNo(latestResults[i])], latestResults)
      nos == StableSort(NumDesc, [k \in 1..Len(byNo) |-> byNo[k][1]])
      two == FirstWithTwo(byNo, nos)
      targetNo == IF two = 0 THEN nos[1] ELSE two
      candidates == SelectSeq(latestResults, LAMBDA r : ResultNo(r) = targetNo)
      bySig == GroupBy([i \in 1..Len(candidates) |-> ResultSig(candidates[i])], candidates)
      sigs == RankSigs(bySig)
      bestArr == sigs[1][2]
  IN [latestNo |-> targetNo,
      consensusDraw |-> bestArr[1].draw,
      agreed |-> Len(bestArr) >= 2,
      consensusCount |-> Len(bestArr)]

\* ---------------------------------------------------------------- makeFreq

\* a variant of addCount whose range ends below 45
addCountBelow45(counter, n, w) == IF n >= 1 /\ n < 45 THEN [counter EXCEPT ![n] = @ + w] ELSE counter

addCount(counter, n, w) == IF n >= 1 /\ n <= 45 THEN [counter EXCEPT ![n] = @ + w] ELSE counter
initCounterInt == [i \in 1..45 |-> 0]

RECURSIVE AddNumbers(_, _)
AddNumbers(counter, nums) ==
  IF nums = <<>> THEN counter ELSE AddNumbers(addCount(counter, Head(nums), 1), Tail(nums))

RECURSIVE OverallMain(_)
\* the main counter after the loop over ds: the counter soFar, after the draws
\* before the last one, then the numbers of the last one
OverallMain(ds) ==
  IF ds = <<>> THEN initCounterInt
  ELSE CHOOSE counter \in {AddNumbers(soFar, ds[Len(ds)].numbers) :
                              soFar \in {OverallMain(SubSeq(ds, 1, Len(ds) - 1))}} : TRUE

RECURSIVE OverallBonus(_)
OverallBonus(ds) ==
  IF ds = <<>> THEN initCounterInt
  ELSE addCount(OverallBonus(SubSeq(ds, 1, Len(ds) - 1)), ds[Len(ds)].bonus, 1)

RECENT_WINDOWS == <<10, 20, 30>>
\* DECAY, 0.95, as a fraction
DECAY == [num |-> 19, den |-> 20]

\* a variant of SliceLast that takes the oldest draws
SliceOldest(ds, win) == IF Len(ds) <= win THEN ds ELSE SubSeq(ds, 1, win)

\* draws.slice(-win)
SliceLast(ds, win) == IF Len(ds) <= win THEN ds ELSE SubSeq(ds, Len(ds) - win + 1, Len(ds))

\* A decay-weighted count is a sum of powers of DECAY: it is kept as the list
\* of their exponents, in the order in which they were added (0.0 is <<>>).
initCounterFloat == [i \in 1..45 |-> <<>>]
addWeight(counter, x, k) == IF x >= 1 /\ x <= 45 THEN [counter EXCEPT ![x] = Append(@, k)] ELSE counter

RECURSIVE AddWeights(_, _, _)
AddWeights(counter, nums, k) ==
  IF nums = <<>> THEN counter ELSE AddWeights(addWeight(counter, Head(nums), k), Tail(nums), k)

\* the loop over newestFirst, of which the first k draws are done
RECURSIVE WeightedMain(_, _)
WeightedMain(newestFirst, k) ==
  IF k = 0 THEN initCounterFloat
  ELSE CHOOSE counter \in {AddWeights(soFar, newestFirst[k].numbers, k - 1) :
                              soFar \in {WeightedMain(newestFirst, k - 1)}} : TRUE

RECURSIVE WeightedBonus(_, _)
WeightedBonus(newestFirst, k) ==
  IF k = 0 THEN initCounterFloat
  ELSE addWeight(WeightedBonus(newestFirst, k - 1), newestFirst[k].bonus, k - 1)

\* from and to of a window: <<>> is null
WindowFrom(slice) == IF slice # <<>> THEN <<slice[1].date>> ELSE <<>>
WindowTo(slice) == IF slice # <<>> THEN <<slice[Len(slice)].date>> ELSE <<>>

\* a variant of WindowOf that reports the nominal size of the window
WindowOfNominal(ds, win) ==
  LET slice == SliceLast(ds, win)
  IN [from |-> WindowFrom(slice), to |-> WindowTo(slice), drawCount |-> win,
      main |-> OverallMain(slice), bonus |-> OverallBonus(slice)]

\* recent[String(win)]
WindowOf(ds, win) ==
  LET slice == SliceLast(ds, win)
  IN [from |-> WindowFrom(slice), to |-> WindowTo(slice), drawCount |-> Len(slice),
      main |-> OverallMain(slice), bonus |-> OverallBonus(slice)]

\* recentWeighted[String(win)]
WeightedWindowOf(ds, win) ==
  LET slice == SliceLast(ds, win)
      newestFirst == [i \in 1..Len(slice) |-> slice[Len(slice) + 1 - i]]
  IN [from |-> WindowFrom(slice), to |-> WindowTo(slice), drawCount |-> Len(slice), decay |-> DECAY,
      main |-> WeightedMain(newestFirst, Len(newestFirst)),
      bonus |-> WeightedBonus(newestFirst, Len(newestFirst))]

WindowSizes == {RECENT_WINDOWS[i] : i \in 1..Len(RECENT_WINDOWS)}

makeFreq(ds) ==
  [overall |-> [main |-> OverallMain(ds), bonus |-> OverallBonus(ds)],
   recent |-> [win \in WindowSizes |-> WindowOf(ds, win)],
   recentWeighted |-> [win \in WindowSizes |-> WeightedWindowOf(ds, win)]]

\* ------------------------------------------------------- the environment

Srcs == 1..NumSources

\* The draw number far enough ahead of a loaded ledger to exceed the
\* bootstrap gap from draw 1 (and to meet it exactly from MaxLocalNo).
FarNo == (MaxLocalNo - 1) + BOOTSTRAP_GAP_THRESHOLD + 1

\* The draw numbers near the loaded ledger: up to the draw after its last.
MaxNo == MaxLocalNo + 1

\* The draw whose contents the mirrors may dispute; the others have variant 1.
DisputedNo == MaxLocalNo
PayloadsAt(n) == IF n = DisputedNo THEN Payloads ELSE {1}
NearRecs == {Rec(k, v) : k \in 1..MaxNo, v \in Payloads} \ {Rec(k, 2) : k \in (1..MaxNo) \ {DisputedNo}}

RECURSIVE SetToSeq(_)
SetToSeq(S) == IF S = {} THEN <<>> ELSE Append(SetToSeq(S \ {Max(S)}), Max(S))

LedgerOf(S, f) == LET ns == SetToSeq(S) IN [i \in 1..Len(ns) |-> Rec(ns[i], f[ns[i]])]

\* The ledger file as a run finds it: written by an earlier run, so sorted
\* ascending with one record per draw number (gaps allowed), or empty.
Ledgers ==
  UNION {{LedgerOf(S, f) : f \in {g \in [S -> Payloads] : \A k \in S : g[k] \in PayloadsAt(k)}} :
         S \in SUBSET (1..MaxLocalNo)}

\* What latest.json of one mirror may hold.
LatestRecs == NearRecs \cup {Rec(FarNo, 1)}

\* What <k>.json of one mirror may hold: the record of k, or (a mirror is not
\* trusted) for k = MaxNo a valid record carrying the draw number before it.
\* The mirrors hold no file for the draws between the near ones and the far
\* one: a request for one of them fails on every adapter.
OneRecs(k) ==
  IF k <= MaxNo \/ k = FarNo
  THEN {Rec(k, v) : v \in PayloadsAt(k)} \cup (IF k = MaxNo THEN {Rec(k - 1, 1)} ELSE {})
  ELSE {}

\* What all.json of one mirror may map to: a non-empty list of valid records
\* sorted by draw number (a repeated draw number keeps its input order).
BulkPayloads ==
  {b \in UNION {[1..k -> LatestRecs] : k \in 1..MaxBulkLen} :
     \A i \in 1..(Len(b) - 1) : b[i].drwNo <= b[i + 1].drwNo}

\* ------------------------------------------------------------ the state

VARIABLES
  pc,             \* where main() stands: "latest", "decide", "bootstrap", "fill",
                  \* "tail", "done" (both files written, exit 0), "fatal" (thrown, exit 1)
  existing,       \* the ledger read from DRAWS_PATH
  settled,        \* adapters whose fetchLatest call has settled
  latestResults,  \* fetchLatestAllSources: out, in completion order
  latestErrors,   \* fetchLatestAllSources: errs (the sourceId of each entry)
  health,         \* the health report
  draws,          \* the working ledger (<<>> while it is null)
  srcIdx,         \* the adapter a fallback loop (fetchAll / fetchDraw) tries next
  n,              \* the draw number of the fill loop or of the tail loop
  lastNoAfter,    \* the bound of the tail loop
  drawsFile,      \* what was written to DRAWS_PATH: <<>> or <<ledger>>
  freqFile,       \* what was written to FREQ_PATH: <<>> or <<payload>>
  hist,           \* what the adapters did in this run (read by no action)
  pickIn,         \* pickConsensusLatest taken alone: its argument
  pickOut,        \* and its result: <<>> or <<outcome>>
  mergeIn,        \* mergeByNo taken alone: <<>> or <<[L, A, B]>>, a ledger and two record lists
  mergeOut,       \* and the ledgers it returned: <<>> or <<results>>
  normIn,         \* normalizeDraw taken alone: <<>> or <<item>>
  normOut,        \* and what it returned: <<>> or <<result>>
  freqIn,         \* makeFreq taken alone: <<>> or <<ledger>>
  freqOut,        \* and what it returned: <<>> or <<statistics>>
  tailIn,         \* one tail iteration taken alone: <<>> or <<[health, draws, n, fetched]>>
  tailOut,        \* and the health report and ledger it leaves: <<>> or <<outcome>>
  guardRun,       \* fetchJsonGuarded taken alone: <<>> or <<its loop state>>
  adapterIn,      \* an adapter operation taken alone: <<>> or <<[op, n, json]>>
  adapterOut,     \* and how it ended: <<>> or <<outcome>>
  rangeRun,       \* fetchRangeConcurrently taken alone: <<>> or <<its state>>
  findIn,         \* findMaxDrawNo taken alone: <<>> or <<[lastKnown, M]>>
  findOut         \* and how it ended: <<>> or <<outcome>>

runVars == <<pc, existing, settled, latestResults, latestErrors, health, draws, srcIdx, n,
             lastNoAfter, drawsFile, freqFile, hist>>
pickVars == <<pickIn, pickOut>>
scriptVars == <<rangeRun, findIn, findOut>>
laterVars == <<tailIn, tailOut, guardRun, adapterIn, adapterOut, scriptVars>>
aloneVars == <<mergeIn, mergeOut, normIn, normOut, freqIn, freqOut, laterVars>>
vars == <<runVars, pickVars, aloneVars>>

NoNote == <<>>

\* no function of the older script is taken alone
ScriptIdle ==
  /\ rangeRun = <<>>
  /\ findIn = <<>>
  /\ findOut = <<>>

\* neither a tail iteration, nor fetchJsonGuarded, nor an adapter operation
\* is taken alone
LaterIdle ==
  /\ ScriptIdle
  /\ tailIn = <<>>
  /\ tailOut = <<>>
  /\ guardRun = <<>>
  /\ adapterIn = <<>>
  /\ adapterOut = <<>>

\* no function is taken alone in this run
AloneIdle ==
  /\ LaterIdle
  /\ mergeIn = <<>>
  /\ mergeOut = <<>>
  /\ normIn = <<>>
  /\ normOut = <<>>
  /\ freqIn = <<>>
  /\ freqOut = <<>>

health0 ==
  [status |-> "ok",
   reasons |-> <<>>,
   used |-> [mode |-> "null", sourceId |-> "null", note |-> NoNote],
   latestConsensus |-> <<>>,
   validatedTail |-> [attempted |-> 0, patched |-> 0, mismatched |-> 0]]

hist0 ==
  [calledAll |-> FALSE,   \* a fetchAll (all.json) request was issued
   calledOne |-> FALSE,   \* a fetchOne (<n>.json) request was issued
   anyLatest |-> FALSE,   \* an adapter returned a usable latest record
   latestPairs |-> {},    \* latest records returned identically by >= 2 adapters
   agreedRecs |-> {},     \* records returned identically by >= 2 adapters (latest or per-draw)
   bulkFailed |-> {},     \* adapters whose fetchAll failed
   bulkFrom |-> 0,        \* the adapter whose bulk payload was accepted (0: none)
   bulk |-> <<>>,         \* that payload
   touched |-> {},        \* draw numbers merged into the ledger after the strategy step
   oneFailedAt |-> {},    \* draw numbers the fill could fetch from no adapter
   misnumbered |-> FALSE, \* the fill accepted a record not numbered as requested
   tailDisagreed |-> {},  \* tail numbers with >= 2 responses and no majority equal to the ledger's record
   tailPatched |-> {},    \* draw numbers of the records the tail validation merged
   byOrder |-> {}]        \* the consensus of the latest results in each order they can settle in

\* the draws that occur at least twice in the list ds
Twice(ds) == {d \in {ds[i] : i \in 1..Len(ds)} : Cardinality({i \in 1..Len(ds) : ds[i] = d}) >= 2}

\* a variant of Degrade that keeps only the newest reason
DegradeKeepingLast(h, reason) == [h EXCEPT !.status = "degraded", !.reasons = <<reason>>]

Degrade(h, reason) == [h EXCEPT !.status = "degraded", !.reasons = Append(@, reason)]

\* A next state of the run: the variables an action of main() may change.
Goto(c) ==
  /\ pc' = c.pc
  /\ health' = c.health
  /\ draws' = c.draws
  /\ n' = c.n
  /\ lastNoAfter' = c.lastNoAfter
  /\ drawsFile' = c.drawsFile
  /\ freqFile' = c.freqFile
  /\ srcIdx' = 1

\* The statistics file: health, lastDraw, totalDraws and freq.overall (the
\* overall tables of makeFreq; the window tables are left to makeFreq).
Payload(h, ds) ==
  LET last == ds[Len(ds)]
  IN [health |-> h,
      lastDraw |-> [drwNo |-> last.drwNo, date |-> last.date, numbers |-> last.numbers, bonus |-> last.bonus],
      totalDraws |-> Len(ds),
      overall |-> [main |-> OverallMain(ds), bonus |-> OverallBonus(ds)]]

\* ------------------------------------------------- main(): control flow

Ctl(p, h, ds, k, last, df, ff) ==
  [pc |-> p, health |-> h, draws |-> ds, n |-> k, lastNoAfter |-> last, drawsFile |-> df, freqFile |-> ff]

TargetNo(h) == h.latestConsensus[1].latestNo
ConsensusDraw(h) == h.latestConsensus[1].consensusDraw

\* 5) finalize: sort, refuse an empty ledger, flag a ledger behind the target,
\* write both files.
Finalize(h, ds) ==
  LET sorted == StableSort(ByNoAsc, ds)
      last == sorted[Len(sorted)]
      h2 == IF last.drwNo < TargetNo(h) THEN Degrade(h, <<"local_last_is_behind_latest">>) ELSE h
  IN IF sorted = <<>>
     THEN Ctl("fatal", h, sorted, 0, 0, <<>>, <<>>)
     ELSE Ctl("done", h2, sorted, 0, 0, <<sorted>>, <<Payload(h2, sorted)>>)

\* 4) the head of the tail loop: for (n = startValidate; n <= lastNoAfter; n++)
\* { attempted++; ... fetch n from every source ... }
EnterTail(h, ds, k, last) ==
  IF k <= last
  THEN Ctl("tail", [h EXCEPT !.validatedTail.attempted = @ + 1], ds, k, last, <<>>, <<>>)
  ELSE Finalize(h, ds)

\* a variant of AfterFill that leaves out the consensus patch of the ledger
AfterFillUnpatched(h, ds) ==
  LET last == LastNo(ds)
      startValidate == IF last - VALIDATE_LAST_K + 1 > 1 THEN last - VALIDATE_LAST_K + 1 ELSE 1
  IN EnterTail(h, ds, startValidate, last)

\* "ensure consensus latest patched", then the bounds of the tail loop
AfterFill(h, ds) ==
  LET patched == mergeByNo(ds, <<ConsensusDraw(h)>>)
      last == LastNo(patched)
      startValidate == IF last - VALIDATE_LAST_K + 1 > 1 THEN last - VALIDATE_LAST_K + 1 ELSE 1
  IN EnterTail(h, patched, startValidate, last)

\* 3) incremental fill to latestNo: the head of the loop
StartFill(h, ds) ==
  LET currentLastNo == LastNo(ds)
  IN IF currentLastNo < TargetNo(h)
     THEN Ctl("fill", h, ds, currentLastNo + 1, 0, <<>>, <<>>)
     ELSE AfterFill(h, ds)

\* --------------------------------------------------- main(): the actions

\* a variant of LatestSettle in which the first failure ends the wait for the
\* other adapters
LatestSettleFailFast(s) ==
  /\ pc = "latest"
  /\ s \notin settled
  /\ \/ \E d \in LatestRecs :
          /\ latestResults' = Append(latestResults, [sourceId |-> s, draw |-> d])
          /\ latestErrors' = latestErrors
          /\ hist' = [hist EXCEPT !.anyLatest = TRUE]
          /\ pc' = IF settled \cup {s} = Srcs THEN "decide" ELSE "latest"
     \/ /\ latestErrors' = Append(latestErrors, s)
        /\ latestResults' = latestResults
        /\ hist' = hist
        /\ pc' = "decide"
  /\ settled' = settled \cup {s}
  /\ UNCHANGED <<existing, health, draws, srcIdx, n, lastNoAfter, drawsFile, freqFile>>
  /\ UNCHANGED <<pickVars, aloneVars>>

\* fetchLatestAllSources: the call of adapter s settles, with a usable latest
\* record (pushed to out) or with a failure (pushed to errs).
LatestSettle(s) ==
  /\ pc = "latest"
  /\ s \notin settled
  /\ \/ \E d \in LatestRecs :
          /\ latestResults' = Append(latestResults, [sourceId |-> s, draw |-> d])
          /\ latestErrors' = latestErrors
          /\ hist' = [hist EXCEPT !.anyLatest = TRUE]
     \/ /\ latestErrors' = Append(latestErrors, s)
        /\ latestResults' = latestResults
        /\ hist' = hist
  /\ settled' = settled \cup {s}
  /\ pc' = IF settled' = Srcs THEN "decide" ELSE "latest"
  /\ UNCHANGED <<existing, health, draws, srcIdx, n, lastNoAfter, drawsFile, freqFile>>
  /\ UNCHANGED <<pickVars, aloneVars>>

\* a variant of LocalOnly that records the mode and leaves the status alone
LocalOnlyUnflagged(h) ==
  LET h2 == [h EXCEPT !.used = [mode |-> "local-only", sourceId |-> "local-cache",
                                note |-> <<"No latest reachable">>]]
      sorted == StableSort(ByNoAsc, existing)
  IN Ctl("done", h2, sorted, 0, 0, <<sorted>>, <<Payload(h2, sorted)>>)

\* the local-only branch: no latest anywhere, a local ledger exists
LocalOnly(h) ==
  LET h2 == [Degrade(h, <<"latest_unavailable_all_sources_using_local_cache">>)
               EXCEPT !.used = [mode |-> "local-only", sourceId |-> "local-cache",
                                note |-> <<"No latest reachable">>]]
      sorted == StableSort(ByNoAsc, existing)
  IN Ctl("done", h2, sorted, 0, 0, <<sorted>>, <<Payload(h2, sorted)>>)

\* a variant of needBootstrap that asks for the bulk payload on any gap
needBootstrapOnAnyGap(existingLastNo, latestNo) ==
  existingLastNo = 0 \/ latestNo - existingLastNo > 0

\* a variant of needBootstrap that asks for the bulk payload at the threshold
needBootstrapAtThreshold(existingLastNo, latestNo) ==
  existingLastNo = 0 \/ latestNo - existingLastNo >= BOOTSTRAP_GAP_THRESHOLD

\* gap > BOOTSTRAP_GAP_THRESHOLD, or nothing local
needBootstrap(existingLastNo, latestNo) ==
  existingLastNo = 0 \/ latestNo - existingLastNo > BOOTSTRAP_GAP_THRESHOLD

\* a variant of Decide that does not flag a consensus that is not agreed
DecideUnflagged ==
  /\ pc = "decide"
  /\ LET h1 == health
         consensus == pickConsensusLatest(latestResults)
         h2 == [h1 EXCEPT !.latestConsensus = <<consensus>>]
         h3 == h2
         existingLastNo == LastNo(existing)
         gap == consensus.latestNo - existingLastNo
         twice == Twice([i \in 1..Len(latestResults) |-> latestResults[i].draw])
     IN IF latestResults = <<>>
        THEN /\ IF existing # <<>>
                THEN Goto(LocalOnly(h1))
                ELSE Goto(Ctl("fatal", h1, <<>>, 0, 0, <<>>, <<>>))
             /\ hist' = hist
        ELSE /\ IF needBootstrap(existingLastNo, consensus.latestNo)
                THEN Goto(Ctl("bootstrap", h3, <<>>, 0, 0, <<>>, <<>>))
                ELSE Goto(StartFill([h3 EXCEPT !.used = [mode |-> "incremental", sourceId |-> "multi",
                                                          note |-> <<"gap", gap>>]],
                                    StableSort(ByNoAsc, existing)))
             /\ hist' = [hist EXCEPT !.latestPairs = twice, !.agreedRecs = twice,
                                      !.byOrder = {pickConsensusLatest(rs) : rs \in OrdersOf(latestResults)}]
  /\ latestResults' = <<>>
  /\ latestErrors' = <<>>
  /\ UNCHANGED <<existing, settled>>
  /\ UNCHANGED <<pickVars, aloneVars>>

\* 1) and 2): all latest calls have settled; the consensus and the strategy.
Decide ==
  /\ pc = "decide"
  /\ LET h1 == health
         consensus == pickConsensusLatest(latestResults)
         h2 == [h1 EXCEPT !.latestConsensus = <<consensus>>]
         h3 == IF consensus.agreed THEN h2 ELSE Degrade(h2, <<"latest_consensus_not_2of3">>)
         existingLastNo == LastNo(existing)
         gap == consensus.latestNo - existingLastNo
         twice == Twice([i \in 1..Len(latestResults) |-> latestResults[i].draw])
     IN IF latestResults = <<>>
        THEN /\ IF existing # <<>>
                THEN Goto(LocalOnly(h1))
                ELSE Goto(Ctl("fatal", h1, <<>>, 0, 0, <<>>, <<>>))
             /\ hist' = hist
        ELSE /\ IF needBootstrap(existingLastNo, consensus.latestNo)
                THEN Goto(Ctl("bootstrap", h3, <<>>, 0, 0, <<>>, <<>>))
                ELSE Goto(StartFill([h3 EXCEPT !.used = [mode |-> "incremental", sourceId |-> "multi",
                                                          note |-> <<"gap", gap>>]],
                                    StableSort(ByNoAsc, existing)))
             /\ hist' = [hist EXCEPT !.latestPairs = twice, !.agreedRecs = twice,
                                      !.byOrder = {pickConsensusLatest(rs) : rs \in OrdersOf(latestResults)}]
  /\ latestResults' = <<>>
  /\ latestErrors' = <<>>
  /\ UNCHANGED <<existing, settled>>
  /\ UNCHANGED <<pickVars, aloneVars>>

\* a variant of BootstrapAccepted that names the first adapter whatever served
BootstrapAcceptedFromFirst(h, all) ==
  LET gap == TargetNo(h) - LastNo(existing)
      h2 == [h EXCEPT !.used = [mode |-> "bootstrap-all", sourceId |-> SOURCES[1], note |-> <<"gap", gap>>]]
  IN StartFill(h2, all)

\* the bulk payload all of adapter srcIdx was accepted: the try block of 2)
BootstrapAccepted(h, all) ==
  LET gap == TargetNo(h) - LastNo(existing)
      h2 == [h EXCEPT !.used = [mode |-> "bootstrap-all", sourceId |-> SOURCES[srcIdx], note |-> <<"gap", gap>>]]
      last == all[Len(all)]
  IN IF last.drwNo # TargetNo(h)
     THEN StartFill(Degrade(h2, <<"all_json_last_draw_no_mismatch_with_latest">>), all)
     ELSE IF drawSig(last) # drawSig(ConsensusDraw(h))
          THEN StartFill(Degrade(h2, <<"all_json_last_signature_mismatch_with_consensus">>),
                         mergeByNo(all, <<ConsensusDraw(h)>>))
          ELSE StartFill(h2, all)

\* a variant of BootstrapFailed that lets the failure of the bulk fetch escape
BootstrapFailedRethrown(h) ==
  Ctl("fatal", h, <<>>, 0, 0, <<>>, <<>>)

\* fetchAllWithFallback threw: the catch block of 2)
BootstrapFailed(h) ==
  LET h2 == Degrade(h, <<"bootstrap_all_failed_try_incremental">>)
  IN IF LastNo(existing) > 0
     THEN StartFill([h2 EXCEPT !.used = [mode |-> "incremental-from-local", sourceId |-> "local-cache",
                                         note |-> <<"bootstrap failed">>]],
                    existing)
     ELSE StartFill([h2 EXCEPT !.used = [mode |-> "incremental-from-scratch", sourceId |-> "multi",
                                         note |-> <<"bootstrap failed">>]],
                    <<>>)

\* a variant of BootstrapTry that asks the remaining adapters at once and
\* accepts the payload of whichever answers
BootstrapTryRacing ==
  /\ pc = "bootstrap"
  /\ \/ \E i \in srcIdx..NumSources, all \in BulkPayloads :
          /\ Goto(BootstrapAccepted(health, all))
          /\ hist' = [hist EXCEPT !.calledAll = TRUE, !.bulkFrom = i, !.bulk = all]
     \/ /\ Goto(BootstrapFailed(health))
        /\ hist' = [hist EXCEPT !.calledAll = TRUE, !.bulkFailed = @ \cup (srcIdx..NumSources)]
  /\ UNCHANGED <<existing, settled, latestResults, latestErrors>>
  /\ UNCHANGED <<pickVars, aloneVars>>

\* fetchAllWithFallback: tryAllFromSource of adapter srcIdx returns a payload
\* or throws; the next adapter is tried only after a throw.
BootstrapTry ==
  /\ pc = "bootstrap"
  /\ \/ \E all \in BulkPayloads :
          /\ Goto(BootstrapAccepted(health, all))
          /\ hist' = [hist EXCEPT !.calledAll = TRUE, !.bulkFrom = srcIdx, !.bulk = all]
     \/ /\ IF srcIdx < NumSources
           THEN /\ srcIdx' = srcIdx + 1
                /\ UNCHANGED <<pc, health, draws, n, lastNoAfter, drawsFile, freqFile>>
           ELSE Goto(BootstrapFailed(health))
        /\ hist' = [hist EXCEPT !.calledAll = TRUE, !.bulkFailed = @ \cup {srcIdx}]
  /\ UNCHANGED <<existing, settled, latestResults, latestErrors>>
  /\ UNCHANGED <<pickVars, aloneVars>>

\* the body of the fill loop once fetchDrawWithFallback(n) returned got
FillGot(h, ds, d) ==
  LET merged == mergeByNo(ds, <<d>>)
  IN IF n + 1 <= TargetNo(h)
     THEN Ctl("fill", h, merged, n + 1, 0, <<>>, <<>>)
     ELSE AfterFill(h, merged)

\* a variant of FillFailed that skips the draw no adapter served and goes on
FillFailedSkips(h, ds) ==
  LET h2 == [Degrade(h, <<"incremental_fetch_failed_at", n>>) EXCEPT !.used.note = <<"stopped_at", n>>]
  IN IF n + 1 <= TargetNo(h) THEN Ctl("fill", h2, ds, n + 1, 0, <<>>, <<>>) ELSE AfterFill(h2, ds)

\* the catch block of the fill loop: stop filling, keep what was merged
FillFailed(h, ds) ==
  AfterFill([Degrade(h, <<"incremental_fetch_failed_at", n>>) EXCEPT !.used.note = <<"stopped_at", n>>], ds)

\* fetchDrawWithFallback(n): tryDrawFromSource of adapter srcIdx returns a
\* record or throws; the next adapter is tried only after a throw.
FillTry ==
  /\ pc = "fill"
  /\ \/ \E d \in OneRecs(n) :
          /\ Goto(FillGot(health, draws, d))
          /\ hist' = [hist EXCEPT !.calledOne = TRUE,
                                  !.touched = @ \cup {d.drwNo},
                                  !.misnumbered = @ \/ d.drwNo # n]
     \/ /\ IF srcIdx < NumSources
           THEN /\ srcIdx' = srcIdx + 1
                /\ UNCHANGED <<pc, health, draws, n, lastNoAfter, drawsFile, freqFile>>
                /\ hist' = [hist EXCEPT !.calledOne = TRUE]
           ELSE /\ Goto(FillFailed(health, draws))
                /\ hist' = [hist EXCEPT !.calledOne = TRUE, !.oneFailedAt = @ \cup {n}]
  /\ UNCHANGED <<existing, settled, latestResults, latestErrors>>
  /\ UNCHANGED <<pickVars, aloneVars>>

\* the best entry [sig, draws] of the signature ranking of fetched
TailBest(fs) == RankSigs(GroupBy([i \in 1..Len(fs) |-> drawSig(fs[i])], fs))[1]

TailMismatch(ds, k, bestSig) ==
  (k \notin Keys(ds)) \/ drawSig(Find(ds, k)) # bestSig

\* What the concurrent tryDrawFromSource calls for k may leave in fetched: the
\* draws of the calls that succeeded, in the order in which they completed
\* (the sourceId of an entry is never read).
TailFetches(k) == UNION {[1..len -> OneRecs(k)] : len \in 0..NumSources}

\* a variant of TailBody that validates against a single response
TailBodySingle(h, ds, k, fs) ==
  IF Len(fs) < 1
  THEN [health |-> h, draws |-> ds, verdict |-> "skipped", merged |-> <<>>]
  ELSE IF TailMismatch(ds, k, TailBest(fs)[1])
  THEN [health |-> Degrade([h EXCEPT !.validatedTail.mismatched = @ + 1,
                                     !.validatedTail.patched = @ + 1],
                           <<"tail_patched_from_consensus", k>>),
        draws |-> mergeByNo(ds, <<TailBest(fs)[2][1]>>),
        verdict |-> "patched", merged |-> <<TailBest(fs)[2][1]>>]
  ELSE [health |-> h, draws |-> ds, verdict |-> "matched", merged |-> <<>>]

\* How the body of a tail iteration ends: the health report and the ledger it
\* leaves, what it found, and the record it merged (if any).
TailEnd(h, ds, verdict, merged) == [health |-> h, draws |-> ds, verdict |-> verdict, merged |-> merged]

\* The body of one iteration of the tail loop once the calls for k have
\* settled with fetched = fs: skip with fewer than 2 responses, flag a missing
\* majority, patch a ledger record that differs from the majority.
TailBody(h, ds, k, fs) ==
  IF Len(fs) < 2
  THEN TailEnd(h, ds, "skipped", <<>>)
  ELSE LET best == TailBest(fs)
           bestSig == best[1]
           bestCount == Len(best[2])
           bestDraw == best[2][1]
       IN IF bestCount < 2
          THEN TailEnd(Degrade(h, <<"tail_no_2of3_consensus", k>>), ds, "no_majority", <<>>)
          ELSE IF TailMismatch(ds, k, bestSig)
          THEN TailEnd(Degrade([h EXCEPT !.validatedTail.mismatched = @ + 1,
                                         !.validatedTail.patched = @ + 1],
                               <<"tail_patched_from_consensus", k>>),
                       mergeByNo(ds, <<bestDraw>>), "patched", <<bestDraw>>)
          ELSE TailEnd(h, ds, "matched", <<>>)

\* One iteration of the tail loop: every adapter is asked for n, and once all
\* calls have settled the majority signature is compared with the ledger;
\* then the head of the next iteration.
TailValidate ==
  /\ pc = "tail"
  /\ \E fs \in TailFetches(n) :
       \E out \in {TailBody(health, draws, n, fs)} :
          /\ Goto(EnterTail(out.health, out.draws, n + 1, lastNoAfter))
          /\ hist' = CASE out.verdict = "skipped" ->
                            [hist EXCEPT !.calledOne = TRUE]
                       [] out.verdict = "no_majority" ->
                            [hist EXCEPT !.calledOne = TRUE, !.tailDisagreed = @ \cup {n},
                                         !.agreedRecs = @ \cup Twice(fs)]
                       [] out.verdict = "patched" ->
                            [hist EXCEPT !.calledOne = TRUE,
                                         !.tailDisagreed = @ \cup {n},
                                         !.touched = @ \cup {out.merged[1].drwNo},
                                         !.tailPatched = @ \cup {out.merged[1].drwNo},
                                         !.agreedRecs = @ \cup Twice(fs)]
                       [] out.verdict = "matched" ->
                            [hist EXCEPT !.calledOne = TRUE, !.agreedRecs = @ \cup Twice(fs)]
  /\ UNCHANGED <<existing, settled, latestResults, latestErrors>>
  /\ UNCHANGED <<pickVars, aloneVars>>

\* ------------------------------------------------------ the run of main()

Init ==
  /\ pc = "latest"
  /\ existing \in Ledgers
  /\ settled = {}
  /\ latestResults = <<>>
  /\ latestErrors = <<>>
  /\ health = health0
  /\ draws = <<>>
  /\ srcIdx = 1
  /\ n = 0
  /\ lastNoAfter = 0
  /\ drawsFile = <<>>
  /\ freqFile = <<>>
  /\ hist = hist0
  /\ pickIn = <<>>
  /\ pickOut = <<>>
  /\ AloneIdle

Next ==
  \/ \E s \in Srcs : LatestSettle(s)
  \/ Decide
  \/ BootstrapTry
  \/ FillTry
  \/ TailValidate

Spec == Init /\ [][Next]_vars

\* --------------------------------------- pickConsensusLatest taken alone

PickRecs == {Rec(k, v) : k \in 1..MaxPickNo, v \in PickPayloads}

\* every list of 1..MaxResults results; the i-th result is adapter i's
PickInputs ==
  UNION {{[i \in 1..len |-> [sourceId |-> i, draw |-> f[i]]] : f \in [1..len -> PickRecs]} :
         len \in 1..MaxResults}

InitPick ==
  /\ pc = "pick"
  /\ existing = <<>>
  /\ settled = {}
  /\ latestResults = <<>>
  /\ latestErrors = <<>>
  /\ health = health0
  /\ draws = <<>>
  /\ srcIdx = 1
  /\ n = 0
  /\ lastNoAfter = 0
  /\ drawsFile = <<>>
  /\ freqFile = <<>>
  /\ hist = hist0
  /\ pickIn \in PickInputs
  /\ pickOut = <<>>
  /\ AloneIdle

PickStep ==
  /\ pickOut = <<>>
  /\ pickOut' = <<pickConsensusLatest(pickIn)>>
  /\ UNCHANGED <<pickIn, runVars, aloneVars>>

NextPick == PickStep

SpecPick == InitPick /\ [][NextPick]_vars

\* ------------------------------------------------- mergeByNo taken alone

\* the records handed to mergeByNo: two draw numbers, two records of draw 1,
\* and a record whose drwNo is no number
MergeRecs == {Rec(1, 1), Rec(1, 2), Rec(2, 1), Rec(NaN, 1)}

\* every list of at most len of them, in any order and with repetitions
MergeLists(len) == UNION {[1..k -> MergeRecs] : k \in 0..len}

InitMerge ==
  /\ pc = "merge"
  /\ existing = <<>>
  /\ settled = {}
  /\ latestResults = <<>>
  /\ latestErrors = <<>>
  /\ health = health0
  /\ draws = <<>>
  /\ srcIdx = 1
  /\ n = 0
  /\ lastNoAfter = 0
  /\ drawsFile = <<>>
  /\ freqFile = <<>>
  /\ hist = hist0
  /\ pickIn = <<>>
  /\ pickOut = <<>>
  /\ \E L \in MergeLists(MaxMergeLen), A \in MergeLists(MaxMergeLen), B \in MergeLists(MaxMergeLen - 1) :
       mergeIn = <<[L |-> L, A |-> A, B |-> B]>>
  /\ mergeOut = <<>>
  /\ normIn = <<>>
  /\ normOut = <<>>
  /\ freqIn = <<>>
  /\ freqOut = <<>>
  /\ LaterIdle

\* the calls of mergeByNo on L, A and B
MergeStep ==
  /\ mergeOut = <<>>
  /\ LET L == mergeIn[1].L
         A == mergeIn[1].A
         B == mergeIn[1].B
     IN mergeOut' = <<[LA |-> mergeByNo(L, A),
                       LLA |-> mergeByNo(L, mergeByNo(L, A)),
                       LAB |-> mergeByNo(mergeByNo(L, A), B),
                       LBA |-> mergeByNo(mergeByNo(L, B), A)]>>
  /\ UNCHANGED <<mergeIn, normIn, normOut, freqIn, freqOut, runVars, pickVars, laterVars>>

NextMerge == MergeStep

SpecMerge == InitMerge /\ [][NextMerge]_vars

\* ---------------------------------------------- normalizeDraw taken alone

RawDrawNos == {Undefined, JsonNull, JsonNum(0), JsonNum(-1), JsonNum(7), JsonStr("7"), JsonStr("x")}
RawBonuses == {Undefined, JsonNull, JsonNum(7), JsonStr("x")}
RawDates == {Undefined, JsonNull, JsonStr(""), JsonStr("2024-01-06T00:00:00Z"), JsonStr("2024-01-06"), JsonStr("x")}

RawArray(a) == [t |-> "array", a |-> a]
RawNumbers ==
  {[t |-> "undefined", a |-> <<>>],
   [t |-> "string", a |-> <<>>],
   RawArray(<<JsonNum(1), JsonNum(2), JsonNum(3), JsonNum(4), JsonNum(5), JsonNum(6)>>),
   RawArray(<<JsonNum(45), JsonNum(2), JsonNum(31), JsonNum(4), JsonNum(17), JsonNum(6)>>),
   RawArray(<<JsonNum(45), JsonStr("7"), JsonNum(31), JsonNum(4), JsonNum(17), JsonNum(6)>>),
   RawArray(<<JsonNum(1), JsonNum(2), JsonNum(3), JsonNum(4), JsonNum(5)>>),
   RawArray(<<JsonNum(1), JsonNum(2), JsonNum(3), JsonNum(4), JsonNum(5), JsonNum(6), JsonNum(7)>>),
   RawArray(<<JsonNum(3), JsonStr("x"), JsonNum(1), JsonNum(4), JsonNum(5), JsonNum(6)>>)}

\* a payload: null, or an object with any of the four fields absent or odd
NormItems ==
  {[t |-> "null", draw_no |-> Undefined, numbers |-> [t |-> "undefined", a |-> <<>>],
    bonus_no |-> Undefined, date |-> Undefined]}
  \cup {[t |-> "object", draw_no |-> no, numbers |-> nums, bonus_no |-> b, date |-> d] :
          no \in RawDrawNos, nums \in RawNumbers, b \in RawBonuses, d \in RawDates}

InitNorm ==
  /\ pc = "normalize"
  /\ existing = <<>>
  /\ settled = {}
  /\ latestResults = <<>>
  /\ latestErrors = <<>>
  /\ health = health0
  /\ draws = <<>>
  /\ srcIdx = 1
  /\ n = 0
  /\ lastNoAfter = 0
  /\ drawsFile = <<>>
  /\ freqFile = <<>>
  /\ hist = hist0
  /\ pickIn = <<>>
  /\ pickOut = <<>>
  /\ mergeIn = <<>>
  /\ mergeOut = <<>>
  /\ \E item \in NormItems : normIn = <<item>>
  /\ normOut = <<>>
  /\ freqIn = <<>>
  /\ freqOut = <<>>
  /\ LaterIdle

NormStep ==
  /\ normOut = <<>>
  /\ \E r \in normalizeDraw(normIn[1]) : normOut' = <<r>>
  /\ UNCHANGED <<normIn, mergeIn, mergeOut, freqIn, freqOut, runVars, pickVars, laterVars>>

NextNorm == NormStep

SpecNorm == InitNorm /\ [][NextNorm]_vars

\* --------------------------------------------------- makeFreq taken alone

\* the main numbers and the bonus of a draw: two usual ones, and one that
\* repeats a main number and holds a number and a bonus out of range
FreqShapes ==
  {[numbers |-> <<1, 2, 3, 4, 5, 6>>, bonus |-> 7],
   [numbers |-> <<2, 7, 8, 9, 10, 45>>, bonus |-> 1],
   [numbers |-> <<7, 7, 20, 30, 40, 46>>, bonus |-> NaN]}
PadShape == [numbers |-> <<1, 2, 3, 4, 5, 6>>, bonus |-> 7]

\* the date of the i-th draw of a ledger
DrawDates ==
  <<"2024-01-06", "2024-01-13", "2024-01-20", "2024-01-27", "2024-02-03", "2024-02-10",
    "2024-02-17", "2024-02-24", "2024-03-02", "2024-03-09", "2024-03-16", "2024-03-23",
    "2024-03-30", "2024-04-06", "2024-04-13", "2024-04-20", "2024-04-27", "2024-05-04",
    "2024-05-11", "2024-05-18", "2024-05-25", "2024-06-01", "2024-06-08", "2024-06-15",
    "2024-06-22", "2024-06-29", "2024-07-06", "2024-07-13", "2024-07-20", "2024-07-27",
    "2024-08-03", "2024-08-10", "2024-08-17", "2024-08-24", "2024-08-31", "2024-09-07">>

\* the ledger whose i-th draw is numbered i and has the shape shapes[i]
FreqLedger(shapes) ==
  [i \in 1..Len(shapes) |->
     [drwNo |-> i, date |-> DrawDates[i], numbers |-> shapes[i].numbers, bonus |-> shapes[i].bonus]]

\* ledgers of at most MaxFreqLen draws of any shape, before or behind at most
\* MaxFreqPad draws of one shape
FreqLedgers ==
  {FreqLedger(IF front THEN v \o [i \in 1..p |-> PadShape] ELSE [i \in 1..p |-> PadShape] \o v) :
     front \in BOOLEAN, p \in 0..MaxFreqPad, v \in UNION {[1..k -> FreqShapes] : k \in 0..MaxFreqLen}}

InitFreq ==
  /\ pc = "makeFreq"
  /\ existing = <<>>
  /\ settled = {}
  /\ latestResults = <<>>
  /\ latestErrors = <<>>
  /\ health = health0
  /\ draws = <<>>
  /\ srcIdx = 1
  /\ n = 0
  /\ lastNoAfter = 0
  /\ drawsFile = <<>>
  /\ freqFile = <<>>
  /\ hist = hist0
  /\ pickIn = <<>>
  /\ pickOut = <<>>
  /\ mergeIn = <<>>
  /\ mergeOut = <<>>
  /\ normIn = <<>>
  /\ normOut = <<>>
  /\ \E ds \in FreqLedgers : freqIn = <<ds>>
  /\ freqOut = <<>>
  /\ LaterIdle

FreqStep ==
  /\ freqOut = <<>>
  /\ freqOut' = <<makeFreq(freqIn[1])>>
  /\ UNCHANGED <<freqIn, mergeIn, mergeOut, normIn, normOut, runVars, pickVars, laterVars>>

NextFreq == FreqStep

SpecFreq == InitFreq /\ [][NextFreq]_vars

\* ------------------------------------------- one tail iteration, taken alone

\* The ledger at the head of the tail loop: merged and sorted, one record per
\* draw number (gaps allowed), not empty.
TailLedgers ==
  UNION {{LedgerOf(S, f) : f \in {g \in [S -> Payloads] : \A k \in S : g[k] \in PayloadsAt(k)}} :
         S \in (SUBSET (1..MaxNo)) \ {{}}}

\* The health report at the head of the tail loop: ok, or degraded by the fill.
TailHealths == {health0, Degrade(health0, <<"incremental_fetch_failed_at", MaxNo>>)}

\* a ledger, a draw number of its tail window and what the adapters answered
TailInputs ==
  UNION {{[health |-> h, draws |-> ds, n |-> k, fetched |-> fs] :
            h \in TailHealths, ds \in TailLedgers, fs \in TailFetches(k)} : k \in 1..MaxNo}

InitTail ==
  /\ pc = "tailIteration"
  /\ existing = <<>>
  /\ settled = {}
  /\ latestResults = <<>>
  /\ latestErrors = <<>>
  /\ health = health0
  /\ draws = <<>>
  /\ srcIdx = 1
  /\ n = 0
  /\ lastNoAfter = 0
  /\ drawsFile = <<>>
  /\ freqFile = <<>>
  /\ hist = hist0
  /\ pickIn = <<>>
  /\ pickOut = <<>>
  /\ mergeIn = <<>>
  /\ mergeOut = <<>>
  /\ normIn = <<>>
  /\ normOut = <<>>
  /\ freqIn = <<>>
  /\ freqOut = <<>>
  /\ \E in \in TailInputs : in.n <= LastNo(in.draws) /\ tailIn = <<in>>
  /\ tailOut = <<>>
  /\ guardRun = <<>>
  /\ adapterIn = <<>>
  /\ adapterOut = <<>>
  /\ ScriptIdle

\* the iteration for n: its head (attempted++), then its body on fetched
TailStep ==
  /\ tailOut = <<>>
  /\ LET in == tailIn[1]
         head == EnterTail(in.health, in.draws, in.n, LastNo(in.draws))
     IN tailOut' = <<TailBody(head.health, head.draws, in.n, in.fetched)>>
  /\ UNCHANGED <<tailIn, guardRun, adapterIn, adapterOut, scriptVars>>
  /\ UNCHANGED <<mergeIn, mergeOut, normIn, normOut, freqIn, freqOut, runVars, pickVars>>

NextTail == TailStep

SpecTail == InitTail /\ [][NextTail]_vars

\* ------------------------------------------- fetchJsonGuarded, taken alone

\* A response body: a text, as the list of its characters.
RECURSIVE TrimStart(_)
TrimStart(t) == IF t # <<>> /\ t[1] = " " THEN TrimStart(Tail(t)) ELSE t
StartsWith(t, p) == Len(t) >= Len(p) /\ SubSeq(t, 1, Len(p)) = p

isHtmlLike(text) ==
  LET t == TrimStart(text)
  IN \/ StartsWith(t, <<"<", "!", "D", "O", "C", "T", "Y", "P", "E">>)
     \/ StartsWith(t, <<"<", "h", "t", "m", "l">>)
     \/ StartsWith(t, <<"<", "h", "e", "a", "d">>)
     \/ StartsWith(t, <<"<", "b", "o", "d", "y">>)
     \/ StartsWith(t, <<"<">>)

\* JSON.parse: of the texts below, those that are JSON (white space around a
\* value is allowed); the others make it throw a SyntaxError
JsonParses(text) == TrimStart(text) \in {<<"{", "}">>, <<"[", "]">>}

BodyTexts ==
  {<<>>, <<"{", "}">>, <<" ", "[", "]">>, <<"{">>, <<"o", "k">>,
   <<"<", "h", "t", "m", "l", ">">>, <<" ", "<", "!", "D", "O", "C", "T", "Y", "P", "E">>,
   <<"<", "e", "r", "r", "o", "r", "/", ">">>}

\* How one call of fetchTextWithTimeout may end: aborted by the timer, failed
\* in the network, answered with a status that is not ok, or answered ok with
\* a text.
Responses ==
  {[kind |-> k, text |-> <<>>] : k \in {"abort", "network", "http"}}
    \cup {[kind |-> "text", text |-> t] : t \in BodyTexts}

TimeoutOf(i) == 25000 + i * 6000
SleepOf(i) == 500 + i * 700

guard0 ==
  [i |-> 0,                \* the loop index
   lastErr |-> <<>>,       \* null, or <<kind of error, attempt>>
   tried |-> <<>>,         \* the response to each attempt made
   timeouts |-> <<>>,      \* the timeout of each attempt made
   parsed |-> {},          \* attempts whose text was handed to JSON.parse
   slept |-> <<>>,         \* the sleeps so far
   state |-> "loop",       \* "loop", "returned", "thrown"
   thrown |-> <<>>]        \* the error the call failed with

\* a variant of Caught that keeps the error of the first failed attempt
CaughtFirst(g, e) ==
  [g EXCEPT !.lastErr = IF @ = <<>> THEN e ELSE @,
            !.slept = IF g.i < retries THEN Append(@, SleepOf(g.i)) ELSE @,
            !.i = @ + 1]

\* the catch block, then i++
Caught(g, e) ==
  [g EXCEPT !.lastErr = e,
            !.slept = IF g.i < retries THEN Append(@, SleepOf(g.i)) ELSE @,
            !.i = @ + 1]

\* one pass of the loop body, the attempt being answered with r
Attempted(g, r) ==
  LET g1 == [g EXCEPT !.tried = Append(@, r), !.timeouts = Append(@, TimeoutOf(g.i))]
      no == g.i + 1
  IN IF r.kind # "text" THEN Caught(g1, <<r.kind, no>>)
     ELSE IF isHtmlLike(r.text) THEN Caught(g1, <<"html", no>>)
     ELSE IF JsonParses(r.text)
     THEN [g1 EXCEPT !.parsed = @ \cup {no}, !.state = "returned"]
     ELSE Caught([g1 EXCEPT !.parsed = @ \cup {no}], <<"syntax", no>>)

InitGuard ==
  /\ pc = "fetchJsonGuarded"
  /\ existing = <<>>
  /\ settled = {}
  /\ latestResults = <<>>
  /\ latestErrors = <<>>
  /\ health = health0
  /\ draws = <<>>
  /\ srcIdx = 1
  /\ n = 0
  /\ lastNoAfter = 0
  /\ drawsFile = <<>>
  /\ freqFile = <<>>
  /\ hist = hist0
  /\ pickIn = <<>>
  /\ pickOut = <<>>
  /\ mergeIn = <<>>
  /\ mergeOut = <<>>
  /\ normIn = <<>>
  /\ normOut = <<>>
  /\ freqIn = <<>>
  /\ freqOut = <<>>
  /\ tailIn = <<>>
  /\ tailOut = <<>>
  /\ guardRun = <<guard0>>
  /\ adapterIn = <<>>
  /\ adapterOut = <<>>
  /\ ScriptIdle

\* for (let i = 0; i <= retries; i++) { try ... catch ... }
GuardAttempt ==
  /\ guardRun[1].state = "loop"
  /\ guardRun[1].i <= retries
  /\ \E r \in Responses : guardRun' = <<Attempted(guardRun[1], r)>>
  /\ UNCHANGED <<tailIn, tailOut, adapterIn, adapterOut, scriptVars>>
  /\ UNCHANGED <<mergeIn, mergeOut, normIn, normOut, freqIn, freqOut, runVars, pickVars>>

\* throw lastErr
GuardThrow ==
  /\ guardRun[1].state = "loop"
  /\ guardRun[1].i > retries
  /\ guardRun' = <<[guardRun[1] EXCEPT !.state = "thrown", !.thrown = guardRun[1].lastErr]>>
  /\ UNCHANGED <<tailIn, tailOut, adapterIn, adapterOut, scriptVars>>
  /\ UNCHANGED <<mergeIn, mergeOut, normIn, normOut, freqIn, freqOut, runVars, pickVars>>

NextGuard == GuardAttempt \/ GuardThrow

SpecGuard == InitGuard /\ [][NextGuard]_vars

\* ---------------------------------------- the adapter operations, taken alone

\* How an adapter operation ends: with the draws it returns, or thrown.
Thrown == [ok |-> FALSE, draws |-> <<>>]
Returned(ds) == [ok |-> TRUE, draws |-> ds]

\* tryLatestFromSource on the JSON that fetchJsonGuarded returned
tryLatestFromSource(obj) ==
  {IF r.valid THEN Returned(<<r.draw>>) ELSE Thrown : r \in normalizeDraw(obj)}

\* tryDrawFromSource(src, k) on the JSON that fetchJsonGuarded returned
tryDrawFromSource(obj, k) ==
  {IF r.valid THEN Returned(<<r.draw>>) ELSE Thrown : r \in normalizeDraw(obj)}

RECURSIVE MappedOf(_)
\* for (const it of arr) { const d = normalizeDraw(it); if (d) mapped.push(d); }
MappedOf(a) ==
  IF a = <<>> THEN {<<>>}
  ELSE {IF r.valid THEN <<r.draw>> \o m ELSE m : r \in normalizeDraw(Head(a)), m \in MappedOf(Tail(a))}

\* a variant of tryAllFromSource that throws at the first item that does not
\* normalize
tryAllFromSourceStrict(arr) ==
  IF arr.t # "array" \/ arr.a = <<>>
  THEN {Thrown}
  ELSE {IF Len(m) < Len(arr.a) THEN Thrown ELSE Returned(StableSort(ByNoAsc, m)) : m \in MappedOf(arr.a)}

\* tryAllFromSource on the JSON that fetchJsonGuarded returned
tryAllFromSource(arr) ==
  IF arr.t # "array" \/ arr.a = <<>>
  THEN {Thrown}
  ELSE {IF m = <<>> THEN Thrown ELSE Returned(StableSort(ByNoAsc, m)) : m \in MappedOf(arr.a)}

\* the items of a mirror's files: null, or an object whose draw number,
\* numbers or date may be absent or odd
AdapterItems ==
  {it \in NormItems :
     \/ it.t = "null"
     \/ /\ it.draw_no \in {JsonNum(7), JsonNum(0), JsonStr("x")}
        /\ it.numbers \in {[t |-> "undefined", a |-> <<>>],
                           RawArray(<<JsonNum(45), JsonNum(2), JsonNum(31), JsonNum(4), JsonNum(17), JsonNum(6)>>)}
        /\ it.bonus_no = JsonNum(7)
        /\ it.date \in {Undefined, JsonStr("2024-01-06")}}

\* what all.json may parse to: an array of items, or a lone item
AllJsons ==
  {RawArray(a) : a \in UNION {[1..len -> AdapterItems] : len \in 0..MaxAllLen}}
    \cup {[t |-> it.t, a |-> <<>>] : it \in AdapterItems}

AdapterCalls ==
  {[op |-> "fetchAll", n |-> 0, json |-> j] : j \in AllJsons}
    \cup {[op |-> "fetchLatest", n |-> 0, json |-> it] : it \in AdapterItems}
    \cup {[op |-> "fetchOne", n |-> 7, json |-> it] : it \in AdapterItems}

InitAdapter ==
  /\ pc = "adapter"
  /\ existing = <<>>
  /\ settled = {}
  /\ latestResults = <<>>
  /\ latestErrors = <<>>
  /\ health = health0
  /\ draws = <<>>
  /\ srcIdx = 1
  /\ n = 0
  /\ lastNoAfter = 0
  /\ drawsFile = <<>>
  /\ freqFile = <<>>
  /\ hist = hist0
  /\ pickIn = <<>>
  /\ pickOut = <<>>
  /\ mergeIn = <<>>
  /\ mergeOut = <<>>
  /\ normIn = <<>>
  /\ normOut = <<>>
  /\ freqIn = <<>>
  /\ freqOut = <<>>
  /\ tailIn = <<>>
  /\ tailOut = <<>>
  /\ guardRun = <<>>
  /\ \E c \in AdapterCalls : adapterIn = <<c>>
  /\ adapterOut = <<>>
  /\ ScriptIdle

\* the operation, from the parsed JSON on
AdapterStep ==
  /\ adapterOut = <<>>
  /\ LET c == adapterIn[1]
     IN \E r \in (CASE c.op = "fetchAll" -> tryAllFromSource(c.json)
                    [] c.op = "fetchLatest" -> tryLatestFromSource(c.json)
                    [] c.op = "fetchOne" -> tryDrawFromSource(c.json, c.n)) :
          adapterOut' = <<r>>
  /\ UNCHANGED <<adapterIn, tailIn, tailOut, guardRun, scriptVars>>
  /\ UNCHANGED <<mergeIn, mergeOut, normIn, normOut, freqIn, freqOut, runVars, pickVars>>

NextAdapter == AdapterStep

SpecAdapter == InitAdapter /\ [][NextAdapter]_vars

\* ------------------------------------- fetchRangeConcurrently, taken alone

\* The state of one call: the closure variables out, cursor and active, the
\* promise, the fetchDraw calls in flight (flight[k] is "first" or "retry")
\* and, for the record, how often each number was dispatched, how often
\* fetchDraw was called for it and which numbers' fetch returned a draw.
range0(from, to, concurrency) ==
  [from |-> from, to |-> to, concurrency |-> concurrency,
   started |-> FALSE,
   out |-> <<>>, cursor |-> from, active |-> 0,
   promise |-> "pending",
   flight |-> [k \in {} |-> "first"],
   dispatched |-> [k \in 1..to |-> 0],
   calls |-> [k \in 1..to |-> 0],
   gave |-> {}]

\* a variant of pump that starts a fetch for every number left
RECURSIVE pumpAll(_)
pumpAll(r) ==
  IF r.cursor <= r.to
  THEN LET k == r.cursor
       IN pumpAll([r EXCEPT !.cursor = k + 1,
                            !.active = @ + 1,
                            !.flight = [j \in DOMAIN r.flight \cup {k} |-> IF j = k THEN "first" ELSE r.flight[j]],
                            !.dispatched[k] = @ + 1,
                            !.calls[k] = @ + 1])
  ELSE r

\* while (active < concurrency && cursor <= to) { n = cursor++; active++; start the worker of n }
RECURSIVE pump(_)
pump(r) ==
  IF r.active < r.concurrency /\ r.cursor <= r.to
  THEN LET k == r.cursor
       IN pump([r EXCEPT !.cursor = k + 1,
                         !.active = @ + 1,
                         !.flight = [j \in DOMAIN r.flight \cup {k} |-> IF j = k THEN "first" ELSE r.flight[j]],
                         !.dispatched[k] = @ + 1,
                         !.calls[k] = @ + 1])
  ELSE r

\* the finally block of the worker of k: active--, then resolve(out) or pump()
\* (resolve on a promise that is rejected does nothing)
WorkerEnds(r, k) ==
  LET r1 == [r EXCEPT !.active = @ - 1,
                      !.flight = [j \in DOMAIN r.flight \ {k} |-> r.flight[j]]]
  IN IF r1.cursor > r1.to /\ r1.active = 0
     THEN [r1 EXCEPT !.promise = IF @ = "pending" THEN "resolved" ELSE @]
     ELSE pump(r1)

InitRange ==
  /\ pc = "fetchRangeConcurrently"
  /\ existing = <<>>
  /\ settled = {}
  /\ latestResults = <<>>
  /\ latestErrors = <<>>
  /\ health = health0
  /\ draws = <<>>
  /\ srcIdx = 1
  /\ n = 0
  /\ lastNoAfter = 0
  /\ drawsFile = <<>>
  /\ freqFile = <<>>
  /\ hist = hist0
  /\ pickIn = <<>>
  /\ pickOut = <<>>
  /\ mergeIn = <<>>
  /\ mergeOut = <<>>
  /\ normIn = <<>>
  /\ normOut = <<>>
  /\ freqIn = <<>>
  /\ freqOut = <<>>
  /\ tailIn = <<>>
  /\ tailOut = <<>>
  /\ guardRun = <<>>
  /\ adapterIn = <<>>
  /\ adapterOut = <<>>
  /\ \E from \in 1..MaxRangeFrom, to \in 0..MaxRangeTo, concurrency \in 1..MaxConcurrency :
       rangeRun = <<range0(from, to, concurrency)>>
  /\ findIn = <<>>
  /\ findOut = <<>>

RangeFrame ==
  /\ UNCHANGED <<findIn, findOut, tailIn, tailOut, guardRun, adapterIn, adapterOut>>
  /\ UNCHANGED <<mergeIn, mergeOut, normIn, normOut, freqIn, freqOut, runVars, pickVars>>

\* the executor of the promise: the first pump()
RangeStart ==
  /\ ~rangeRun[1].started
  /\ rangeRun' = <<pump([rangeRun[1] EXCEPT !.started = TRUE])>>
  /\ RangeFrame

\* fetchDraw(k) returns, a draw or null, in the first try or in the retry
FetchReturns(k) ==
  /\ k \in DOMAIN rangeRun[1].flight
  /\ \E found \in BOOLEAN :
       LET r == rangeRun[1]
           r1 == IF found THEN [r EXCEPT !.out = Append(@, k), !.gave = @ \cup {k}] ELSE r
       IN rangeRun' = <<WorkerEnds(r1, k)>>
  /\ RangeFrame

\* the first fetchDraw(k) throws: sleep, then fetchDraw(k) once more
FetchThrows(k) ==
  /\ k \in DOMAIN rangeRun[1].flight
  /\ rangeRun[1].flight[k] = "first"
  /\ rangeRun' = <<[rangeRun[1] EXCEPT !.flight[k] = "retry", !.calls[k] = @ + 1]>>
  /\ RangeFrame

\* the second fetchDraw(k) throws: reject, then the finally block
RetryThrows(k) ==
  /\ k \in DOMAIN rangeRun[1].flight
  /\ rangeRun[1].flight[k] = "retry"
  /\ LET r == rangeRun[1]
         r1 == [r EXCEPT !.promise = IF @ = "pending" THEN "rejected" ELSE @]
     IN rangeRun' = <<WorkerEnds(r1, k)>>
  /\ RangeFrame

FetchSettles == \E k \in 1..(MaxRangeTo + 1) : FetchReturns(k) \/ FetchThrows(k) \/ RetryThrows(k)

NextRange == RangeStart \/ FetchSettles

SpecRange == InitRange /\ [][NextRange]_vars

\* every fetchDraw call settles, and the executor runs
SpecRangeLive == SpecRange /\ WF_vars(RangeStart) /\ WF_vars(FetchSettles)

\* --------------------------------------------- findMaxDrawNo, taken alone

\* existsDraw(drwNo) of a source that holds draws exactly for 1..M
existsDraw(drwNo, M) == drwNo >= 1 /\ drwNo <= M

FoundMax(v) == [ok |-> TRUE, value |-> v]
Aborted == [ok |-> FALSE, value |-> 0]

\* the fast path: the loop over i, n being the last draw seen
RECURSIVE ProbeForward(_, _, _)
ProbeForward(last, i, M) ==
  IF i < PROBE_LIMIT
  THEN IF ~existsDraw(last + 1, M) THEN last ELSE ProbeForward(last + 1, i + 1, M)
  ELSE last

\* the binary search between lo and hi
RECURSIVE BinarySearch(_, _, _, _)
BinarySearch(lo, hi, best, M) ==
  IF lo <= hi
  THEN LET mid == (lo + hi) \div 2
       IN IF existsDraw(mid, M)
          THEN BinarySearch(mid + 1, hi, mid, M)
          ELSE BinarySearch(lo, mid - 1, best, M)
  ELSE best

\* the exponential search from low and high, then the binary search
RECURSIVE ExpSearch(_, _, _)
ExpSearch(low, high, M) ==
  IF ~existsDraw(high, M)
  THEN FoundMax(BinarySearch(low + 1, high - 1, low, M))
  ELSE IF high * 2 > ABORT_HIGH THEN Aborted ELSE ExpSearch(high, high * 2, M)

\* findMaxDrawNo(lastKnown) against a source that holds the draws 1..M
findMaxDrawNo(lastKnown, M) ==
  IF lastKnown > 0
  THEN FoundMax(ProbeForward(lastKnown, 0, M))
  ELSE ExpSearch(0, 1, M)

\* how many draws the source holds: few, or about a power of 2, or about the
\* highest probe
DrawCounts ==
  (0..MaxFindM)
    \cup {m \in {2^k + e : k \in 1..16, e \in {-1, 0, 1}} : m <= ABORT_HIGH}
    \cup {ABORT_HIGH - 1, ABORT_HIGH}

FindInputs ==
  {[lastKnown |-> 0, M |-> m] : m \in DrawCounts}
    \cup {[lastKnown |-> l, M |-> m] : l \in 1..MaxLastKnown, m \in 1..(MaxLastKnown + PROBE_LIMIT + 2)}

InitFind ==
  /\ pc = "findMaxDrawNo"
  /\ existing = <<>>
  /\ settled = {}
  /\ latestResults = <<>>
  /\ latestErrors = <<>>
  /\ health = health0
  /\ draws = <<>>
  /\ srcIdx = 1
  /\ n = 0
  /\ lastNoAfter = 0
  /\ drawsFile = <<>>
  /\ freqFile = <<>>
  /\ hist = hist0
  /\ pickIn = <<>>
  /\ pickOut = <<>>
  /\ mergeIn = <<>>
  /\ mergeOut = <<>>
  /\ normIn = <<>>
  /\ normOut = <<>>
  /\ freqIn = <<>>
  /\ freqOut = <<>>
  /\ tailIn = <<>>
  /\ tailOut = <<>>
  /\ guardRun = <<>>
  /\ adapterIn = <<>>
  /\ adapterOut = <<>>
  /\ rangeRun = <<>>
  /\ \E in \in FindInputs : findIn = <<in>>
  /\ findOut = <<>>

FindStep ==
  /\ findOut = <<>>
  /\ findOut' = <<findMaxDrawNo(findIn[1].lastKnown, findIn[1].M)>>
  /\ UNCHANGED <<findIn, rangeRun, tailIn, tailOut, guardRun, adapterIn, adapterOut>>
  /\ UNCHANGED <<mergeIn, mergeOut, normIn, normOut, freqIn, freqOut, runVars, pickVars>>

NextFind == FindStep

SpecFind == InitFind /\ [][NextFind]_vars

\* ------------------------------------------------ claims: the consensus

PickDone == pickOut # <<>>
Out == pickOut[1]
InDraw(i) == pickIn[i].draw
InIdx == 1..Len(pickIn)

\* the results of the chosen draw number, and the support of a signature there
Cand == {i \in InIdx : InDraw(i).drwNo = Out.latestNo}
Support(sig) == Cardinality({i \in Cand : drawSig(InDraw(i)) = sig})
FirstAt(sig) == CHOOSE i \in Cand : drawSig(InDraw(i)) = sig /\ \A j \in Cand : drawSig(InDraw(j)) = sig => i <= j
Min(S) == CHOOSE x \in S : \A y \in S : x <= y

PairwiseDistinct == \A i, j \in InIdx : i # j => InDraw(i) # InDraw(j)

\* three identical records: agreed, support 3
C8_AllSame ==
  (InDraw(1) = InDraw(2) /\ InDraw(2) = InDraw(3))
    => (Out.agreed /\ Out.consensusCount = 3 /\ Out.consensusDraw = InDraw(1))

\* two identical records and one different, in any order: the pair's value, support 2
C8_TwoAndOne ==
  \A i, j, k \in InIdx :
    (i # j /\ i # k /\ j # k /\ InDraw(i) = InDraw(j) /\ InDraw(k) # InDraw(i))
      => (Out.agreed /\ Out.consensusCount = 2 /\ Out.consensusDraw = InDraw(i))

\* C8 as stated: on three results, three identical records give agreed with
\* support 3, two identical and one different give the pair's value with
\* support 2 and agreed, and three pairwise distinct records give the
\* first-seen value with agreed = false.
C8_Original ==
  (PickDone /\ Len(pickIn) = 3)
    => /\ C8_AllSame
       /\ C8_TwoAndOne
       /\ PairwiseDistinct => (~Out.agreed /\ Out.consensusDraw = InDraw(1))

\* C8 as amended: the same, except that three pairwise distinct records give
\* agreed = false with support 1 and the value seen first among the records
\* that carry the chosen draw number; that is the first-seen of the three when
\* all three carry the same draw number.
C8_Amended ==
  (PickDone /\ Len(pickIn) = 3)
    => /\ C8_AllSame
       /\ C8_TwoAndOne
       /\ PairwiseDistinct
            => /\ ~Out.agreed
               /\ Out.consensusCount = 1
               /\ Out.consensusDraw = InDraw(Min(Cand))
               /\ (\A i \in InIdx : InDraw(i).drwNo = InDraw(1).drwNo) => Out.consensusDraw = InDraw(1)

\* three pairwise distinct records whose first-seen one is not the value returned
C8_Witness ==
  /\ PickDone
  /\ Len(pickIn) = 3
  /\ PairwiseDistinct
  /\ Out.consensusDraw # InDraw(1)
  /\ ~Out.agreed

NosOf(S) == {InDraw(i).drwNo : i \in S}
NosWithTwo == {k \in NosOf(InIdx) : Cardinality({i \in InIdx : InDraw(i).drwNo = k}) >= 2}

\* C9: the target is the highest draw number reported by at least 2 results;
\* when no draw number is reported by 2 results it is the highest draw number
\* reported by any result, and agreed is false.
C9_Target ==
  PickDone
    => IF NosWithTwo # {}
       THEN Out.latestNo = Max(NosWithTwo)
       ELSE Out.latestNo = Max(NosOf(InIdx)) /\ ~Out.agreed

\* a draw number reported twice wins over a higher one reported once
C9_Witness ==
  /\ PickDone
  /\ NosWithTwo # {}
  /\ Max(NosOf(InIdx)) > Out.latestNo

\* C10: in the chosen draw-number group the returned record's signature has
\* maximal support, a tie of equal support is won by the signature that
\* appears first in the input, consensusCount is that support, and agreed is
\* true exactly when it is at least 2.
C10_Winner ==
  PickDone
    => LET win == drawSig(Out.consensusDraw)
       IN /\ Support(win) >= 1
          /\ \A i \in Cand :
               LET sig == drawSig(InDraw(i))
               IN /\ Support(sig) <= Support(win)
                  /\ Support(sig) = Support(win) => FirstAt(win) <= FirstAt(sig)
          /\ Out.consensusDraw = InDraw(FirstAt(win))
          /\ Out.consensusCount = Support(win)
          /\ Out.agreed <=> Support(win) >= 2

\* two signatures of the chosen draw number with the same support: the tie is
\* won by the one seen first
C10_Witness ==
  /\ PickDone
  /\ \E i \in Cand :
       /\ drawSig(InDraw(i)) # drawSig(Out.consensusDraw)
       /\ Support(drawSig(InDraw(i))) = Support(drawSig(Out.consensusDraw))

\* ------------------------------------------------- claims: the run

Done == pc = "done"
Written == drawsFile[1]
Started == pc \in {"fill", "tail", "done"}

\* C1: in every run that ends non-fatally, every draw number of the ledger
\* loaded at the start is still in the ledger persisted at the end.
C1_NoDrawLost ==
  Done => Keys(existing) \subseteq Keys(Written)

\* C2: a record of the loaded ledger is replaced by a record of a different
\* signature only when at least 2 sources returned the replacing record
\* identically.
C2_ReplacedOnlyByConsensus ==
  Started =>
    \A k \in Keys(existing) \cap Keys(draws) :
      drawSig(Find(draws, k)) # drawSig(Find(existing, k)) => Find(draws, k) \in hist.agreedRecs

\* The steps main() still has to take, at most: one per tail iteration, one
\* per adapter for every draw the fill still has to fetch, one per adapter of
\* the bulk fetch, the strategy step, one per latest call not yet settled.
TailRank == IF pc = "tail" THEN lastNoAfter - n + 1 ELSE VALIDATE_LAST_K
FillRank == TailRank + 1 + (IF pc = "fill" THEN (TargetNo(health) - n) * NumSources + (NumSources - srcIdx)
                                          ELSE (FarNo + 1) * NumSources)
BootstrapRank == FillRank + 1 + (IF pc = "bootstrap" THEN NumSources - srcIdx ELSE NumSources)
Rank ==
  CASE pc \in {"done", "fatal"} -> 0
    [] pc = "tail" -> TailRank
    [] pc = "fill" -> FillRank
    [] pc = "bootstrap" -> BootstrapRank
    [] pc = "decide" -> BootstrapRank + 1
    [] pc = "latest" -> BootstrapRank + 1 + (NumSources - Cardinality(settled))

\* main() is at one of its await points with a call that can still settle,
\* or it has ended
Running ==
  /\ pc \in {"latest", "decide", "bootstrap", "fill", "tail", "done", "fatal"}
  /\ pc = "latest" => settled # Srcs
  /\ pc \in {"bootstrap", "fill"} => srcIdx \in Srcs
  /\ pc = "tail" => n <= lastNoAfter
  /\ Rank >= 0

\* C3: with a non-empty loaded ledger the run is never fatal: whatever
\* fails, it stands at an await point whose call can still settle, every step
\* brings it nearer its end, and at its end both files are written, with
\* status ok or degraded.
C3_NeverFatal ==
  /\ [](existing # <<>> => pc # "fatal" /\ Running)
  /\ [](existing # <<>> /\ Done => /\ drawsFile # <<>> /\ Written # <<>>
                                   /\ freqFile # <<>>
                                   /\ health.status \in {"ok", "degraded"})
  /\ [](existing # <<>> /\ ~Done => drawsFile = <<>> /\ freqFile = <<>>)
  /\ [][existing # <<>> => Rank' < Rank]_vars

\* a non-empty ledger, a latest record, and every fetchAll and a fetchOne of
\* the fill failed on every adapter: the run has written its files
C3_Witness ==
  /\ Done
  /\ existing # <<>>
  /\ hist.bulkFailed = Srcs
  /\ hist.oneFailedAt # {}
  /\ drawsFile # <<>>

\* C4: with an empty loaded ledger the run is fatal, with neither file
\* written, exactly when no adapter returned a usable latest record; when one
\* did, the run goes on (every step nearer its end) and ends with a non-empty
\* ledger written.
C4_FatalIffNoLatest ==
  /\ [](existing = <<>> /\ pc = "fatal" => ~hist.anyLatest /\ drawsFile = <<>> /\ freqFile = <<>>)
  /\ [](existing = <<>> /\ ~hist.anyLatest => pc \in {"latest", "decide", "fatal"})
  /\ [](existing = <<>> /\ Done => hist.anyLatest /\ drawsFile # <<>> /\ freqFile # <<>> /\ Written # <<>>)
  /\ [](existing = <<>> => Running)
  /\ [][existing = <<>> => Rank' < Rank]_vars

\* nothing local, a latest record, every fetchAll failed and the fill could
\* fetch nothing: the ledger written holds the consensus draw alone
C4_Witness ==
  /\ Done
  /\ existing = <<>>
  /\ hist.bulkFailed = Srcs
  /\ hist.oneFailedAt = {1}
  /\ hist.touched = {}
  /\ Len(Written) = 1

\* how often the number i is a main number, or the bonus, of a draw of ds
MainCount(ds, i) == Cardinality({q \in (1..Len(ds)) \X (1..6) : ds[q[1]].numbers[q[2]] = i})
BonusCount(ds, i) == Cardinality({j \in 1..Len(ds) : ds[j].bonus = i})

\* C5: when every adapter failed fetchLatest and the loaded ledger is not
\* empty, the run ends (exit 0) with the loaded ledger written unchanged, the
\* statistics computed from it, status degraded with the one reason that
\* latest is unavailable and the local cache is used, and no fetchAll or
\* fetchOne request issued.
C5_LocalOnly ==
  (existing # <<>> /\ ~hist.anyLatest /\ pc \notin {"latest", "decide"})
    => /\ Done
       /\ drawsFile = <<existing>>
       /\ \A i \in 1..(Len(existing) - 1) : existing[i].drwNo < existing[i + 1].drwNo
       /\ freqFile # <<>>
       /\ freqFile[1].totalDraws = Len(existing)
       /\ freqFile[1].lastDraw = existing[Len(existing)]
       /\ \A i \in 1..45 : /\ freqFile[1].overall.main[i] = MainCount(existing, i)
                           /\ freqFile[1].overall.bonus[i] = BonusCount(existing, i)
       /\ health.status = "degraded"
       /\ health.reasons = << <<"latest_unavailable_all_sources_using_local_cache">> >>
       /\ freqFile[1].health = health
       /\ ~hist.calledAll
       /\ ~hist.calledOne

\* a ledger of several draws, and every adapter failed fetchLatest
C5_Witness ==
  /\ Done
  /\ Len(existing) >= 2
  /\ ~hist.anyLatest
  /\ health.used.mode = "local-only"

\* the loaded ledger holds the draws 1..N and two adapters reported the same
\* record of draw N+1 as latest
C6_Scenario(N) ==
  /\ Done
  /\ Len(existing) = N
  /\ Keys(existing) = 1..N
  /\ \E d \in hist.latestPairs : d.drwNo = N + 1

C6_Outcome(N) ==
  /\ Keys(Written) = 1..(N + 1)
  /\ Len(Written) = N + 1
  /\ health.status = "ok"
  /\ health.reasons = <<>>

C6_QuietRun ==
  /\ hist.oneFailedAt = {}
  /\ ~hist.misnumbered
  /\ hist.tailDisagreed = {}

C7_Scenario ==
  /\ Done
  /\ existing = <<>>
  /\ hist.bulkFrom = 2
  /\ hist.bulkFailed = {1}

C7_Used ==
  /\ health.used.sourceId = SOURCES[2]
  /\ health.used.mode = "bootstrap-all"

\* C7 as stated: when the loaded ledger is empty and the bulk fetch fails on
\* the first adapter and succeeds on the second, the resulting ledger
\* contains every record of the second adapter's payload, and used names the
\* second adapter with the bootstrap mode.
C7_Original ==
  C7_Scenario
    => /\ \A i \in 1..Len(hist.bulk) : \E j \in 1..Len(Written) : Written[j] = hist.bulk[i]
       /\ C7_Used

\* C7 as amended: the resulting ledger holds a record for every draw number
\* of the payload, and it is the payload's record of that number unless a
\* later record of the payload carries the same number, the number is the
\* consensus target (whose record is the consensus record unless the tail
\* validation patched it), or a fill response or a tail patch carried that
\* number; no draw number occurs twice; used names the second adapter with
\* the bootstrap mode.
C7_Amended ==
  C7_Scenario
    => /\ \A i \in 1..Len(hist.bulk) :
            LET k == hist.bulk[i].drwNo
            IN /\ k \in Keys(Written)
               /\ \/ Find(Written, k) = hist.bulk[i]
                  \/ \E j \in (i + 1)..Len(hist.bulk) : hist.bulk[j].drwNo = k
                  \/ k = TargetNo(health)
                  \/ k \in hist.touched
       /\ \A k \in Keys(Written) : Cardinality({j \in 1..Len(Written) : Written[j].drwNo = k}) = 1
       /\ TargetNo(health) \notin hist.tailPatched => Find(Written, TargetNo(health)) = ConsensusDraw(health)
       /\ C7_Used

\* the second adapter's payload of several records was accepted and one of
\* its records is not in the ledger written
C7_Witness ==
  /\ C7_Scenario
  /\ Len(hist.bulk) >= 2
  /\ \E i \in 1..Len(hist.bulk) : \A j \in 1..Len(Written) : Written[j] # hist.bulk[i]

\* -------------------------------------------------- claims: mergeByNo

MergeDone == mergeOut # <<>>
ML == mergeIn[1].L
MA == mergeIn[1].A
MB == mergeIn[1].B
Merged == mergeOut[1]

\* the draw numbers of a list that are numbers, and the last record of one
FiniteKeys(ds) == {k \in Keys(ds) : IsFinite(k)}
LastOf(ds, k) == ds[Max({i \in 1..Len(ds) : ds[i].drwNo = k})]

\* C11: mergeByNo is idempotent: mergeByNo(L, mergeByNo(L, X)) equals
\* mergeByNo(L, X) for every ledger L and record list X.
C11_Idempotent ==
  MergeDone => Merged.LLA = Merged.LA

\* a ledger and a list that share a draw number with different records
C11_Witness ==
  /\ MergeDone
  /\ \E k \in FiniteKeys(ML) \cap FiniteKeys(MA) : LastOf(ML, k) # LastOf(MA, k)
  /\ Len(Merged.LA) = 2
  /\ Merged.LLA = Merged.LA

\* C12 as stated: merging A then B into L yields the same ledger as merging
\* B then A, including when A and B hold different records for the same draw
\* number.
C12_Original ==
  MergeDone => Merged.LAB = Merged.LBA

\* A and B hold the same (last) record for every draw number they share
MergeAgree ==
  \A k \in FiniteKeys(MA) \cap FiniteKeys(MB) : LastOf(MA, k) = LastOf(MB, k)

\* C12 as amended: merging A then B into L yields the same ledger as merging
\* B then A when A and B hold the same (last) record for every draw number
\* they share; when they hold different records for a draw number, the list
\* merged last wins.
C12_Amended ==
  MergeDone
    => /\ MergeAgree => Merged.LAB = Merged.LBA
       /\ \A k \in FiniteKeys(MA) \cap FiniteKeys(MB) :
            /\ Find(Merged.LAB, k) = LastOf(MB, k)
            /\ Find(Merged.LBA, k) = LastOf(MA, k)

\* A and B bring different draw numbers, in the order that an unsorted
\* result would show
C12_Witness ==
  /\ MergeDone
  /\ MergeAgree
  /\ FiniteKeys(MA) = {2}
  /\ FiniteKeys(MB) = {1}
  /\ Merged.LAB = Merged.LBA

\* C13: the draw numbers of mergeByNo(current, incoming) contain every draw
\* number of current, and the record of every draw number that is in current
\* and not in incoming is unchanged.
C13_Frame ==
  MergeDone
    => /\ FiniteKeys(ML) \subseteq Keys(Merged.LA)
       /\ \A k \in FiniteKeys(ML) \ FiniteKeys(MA) : Find(Merged.LA, k) = LastOf(ML, k)

\* current holds a draw number that incoming lacks, and incoming brings another
C13_Witness ==
  /\ MergeDone
  /\ FiniteKeys(ML) \ FiniteKeys(MA) # {}
  /\ FiniteKeys(MA) \ FiniteKeys(ML) # {}

\* C14: for every draw number in both arguments the result holds the
\* incoming record (the last one of incoming for that number), and the result
\* lists each draw number once, in strictly ascending order.
C14_IncomingWins ==
  MergeDone
    => /\ \A k \in FiniteKeys(ML) \cap FiniteKeys(MA) : Find(Merged.LA, k) = LastOf(MA, k)
       /\ \A i \in 1..(Len(Merged.LA) - 1) : Merged.LA[i].drwNo < Merged.LA[i + 1].drwNo
       /\ Keys(Merged.LA) = FiniteKeys(ML) \cup FiniteKeys(MA)

\* incoming holds two different records of a draw number that current holds
\* with the first of them
C14_Witness ==
  /\ MergeDone
  /\ Len(MA) = 2
  /\ MA[1].drwNo = MA[2].drwNo
  /\ MA[1] # MA[2]
  /\ IsFinite(MA[1].drwNo)
  /\ MA[1].drwNo \in FiniteKeys(ML)
  /\ LastOf(ML, MA[1].drwNo) = MA[1]

\* ---------------------------------------------- claims: normalizeDraw

NormDone == normOut # <<>>
Item == normIn[1]
Normalized == normOut[1]

Ascending(nums) == \A i \in 1..(Len(nums) - 1) : IsFinite(nums[i]) /\ IsFinite(nums[i + 1]) /\ nums[i] <= nums[i + 1]
Absent(x) == x.t \in {"undefined", "null"}

\* C15: normalizeDraw returns a record whose main numbers are 6 values in
\* ascending order or returns null, and it returns null for a payload that is
\* null or lacks the draw number, the numbers list, the date or the bonus.
C15_SixAscendingOrInvalid ==
  NormDone
    => /\ Normalized.valid
         => Len(Normalized.draw.numbers) = 6 /\ Ascending(Normalized.draw.numbers)
       /\ (\/ Item.t = "null"
           \/ Absent(Item.draw_no)
           \/ Item.numbers.t # "array"
           \/ Absent(Item.date)
           \/ Absent(Item.bonus_no))
         => ~Normalized.valid

\* C16: normalizeDraw returns a record only if the draw number is a finite
\* positive integer, all 6 main values are finite numbers, the date is
\* present and the bonus is a finite number.
C16_RecordOnlyIfValid ==
  (NormDone /\ Normalized.valid)
    => /\ IsFinite(ToNumber(Item.draw_no)) /\ ToNumber(Item.draw_no) > 0
       /\ Item.numbers.t = "array" /\ Len(Item.numbers.a) = 6
       /\ \A i \in 1..Len(Item.numbers.a) : IsFinite(ToNumber(Item.numbers.a[i]))
       /\ ~Absent(Item.date) /\ Item.date.text # ""
       /\ IsFinite(ToNumber(Item.bonus_no))

\* --------------------------------------------------- claims: makeFreq

FreqDone == freqOut # <<>>
FreqOf == freqIn[1]
Stats == freqOut[1]

AllZero(counter) == DOMAIN counter = 1..45 /\ \A x \in 1..45 : counter[x] = 0
NoWeight(counter) == DOMAIN counter = 1..45 /\ \A x \in 1..45 : counter[x] = <<>>

\* C17: makeFreq on an empty ledger returns overall main and bonus tables
\* with all 45 counts 0 and, for every window size, all-zero tables,
\* drawCount 0 and from and to both null.
C17_EmptyLedger ==
  (FreqDone /\ FreqOf = <<>>)
    => /\ AllZero(Stats.overall.main)
       /\ AllZero(Stats.overall.bonus)
       /\ DOMAIN Stats.recent = {10, 20, 30}
       /\ DOMAIN Stats.recentWeighted = {10, 20, 30}
       /\ \A win \in {10, 20, 30} :
            /\ AllZero(Stats.recent[win].main)
            /\ AllZero(Stats.recent[win].bonus)
            /\ Stats.recent[win].drawCount = 0
            /\ Stats.recent[win].from = <<>>
            /\ Stats.recent[win].to = <<>>
            /\ NoWeight(Stats.recentWeighted[win].main)
            /\ NoWeight(Stats.recentWeighted[win].bonus)
            /\ Stats.recentWeighted[win].drawCount = 0
            /\ Stats.recentWeighted[win].from = <<>>
            /\ Stats.recentWeighted[win].to = <<>>

\* makeFreq has returned for the empty ledger
C17_Witness ==
  /\ FreqDone
  /\ FreqOf = <<>>
  /\ Stats.recent[10].drawCount = 0

\* the draws of ds whose main numbers contain x, and those whose bonus is x
DrawsWithMain(ds, x) == {j \in 1..Len(ds) : \E q \in 1..Len(ds[j].numbers) : ds[j].numbers[q] = x}
DrawsWithBonus(ds, x) == {j \in 1..Len(ds) : ds[j].bonus = x}
Occurrences(ds, x) == {q \in (1..Len(ds)) \X (1..6) : ds[q[1]].numbers[q[2]] = x}
DistinctMain(d) == \A i, j \in 1..Len(d.numbers) : d.numbers[i] = d.numbers[j] => i = j

LedgerReachesTarget ==
  (Done /\ hist.anyLatest)
    => /\ LastNo(Written) >= TargetNo(health)
       /\ \A i \in 1..Len(health.reasons) : health.reasons[i] # <<"local_last_is_behind_latest">>

\* C20: the consensus record of a run, and the record the persisted ledger
\* holds for the target draw unless the tail validation replaced it, are the
\* same in whatever order the fetchLatest calls of the adapters complete.
C20_OrderFree ==
  (Done /\ hist.anyLatest)
    => \A c \in hist.byOrder :
         /\ c.latestNo = TargetNo(health)
         /\ c.consensusDraw = ConsensusDraw(health)
         /\ TargetNo(health) \notin hist.tailPatched
              => Find(Written, TargetNo(health)) = c.consensusDraw

\* ------------------------------------------- claims: strategy and fill

\* the strategy step is behind: main() is past the consensus
Decided == pc \in {"bootstrap", "fill", "tail", "done"} /\ hist.anyLatest
BulkAttempted == pc = "bootstrap" \/ hist.calledAll
Gap == TargetNo(health) - LastNo(existing)

\* C21: a bulk fetchAll bootstrap is attempted if and only if a usable latest
\* result exists and the loaded ledger is empty or the target exceeds its
\* highest draw number by more than 120; with a non-empty ledger and a gap of
\* at most 120 no fetchAll is issued, the mode is incremental and the run
\* works on the records of the loaded ledger.
C21_BootstrapIff ==
  /\ BulkAttempted => Decided
  /\ Decided => (BulkAttempted <=> (existing = <<>> \/ Gap > 120))
  /\ (Decided /\ existing # <<>> /\ Gap <= 120)
       => /\ ~hist.calledAll
          /\ health.used.mode = "incremental"
          /\ Keys(existing) \subseteq Keys(draws)

\* a ledger the target is 121 draws ahead of, and a bulk payload accepted
C21_Witness ==
  /\ Done
  /\ hist.anyLatest
  /\ existing # <<>>
  /\ Gap = BOOTSTRAP_GAP_THRESHOLD + 1
  /\ hist.calledAll
  /\ hist.bulkFrom # 0

\* adapter srcIdx failed for the request at hand and the next adapter is
\* asked the same request: nothing but srcIdx (and the history) changes
NextAdapterAsked ==
  /\ srcIdx < NumSources
  /\ srcIdx' = srcIdx + 1
  /\ UNCHANGED <<pc, n, draws, health, existing, drawsFile, freqFile>>

\* the request at hand is over (an adapter answered, or the last one failed):
\* main() moves on and the next request starts at the first adapter
RequestOver ==
  /\ srcIdx' = 1
  /\ pc' # pc \/ n' = n + 1

\* C22: in the bulk bootstrap and in the per-draw fetch of the fill the
\* adapters are asked one at a time in configured order: a step of either
\* asks the next adapter the same request after the current one failed, or
\* ends the request; the adapters that failed the bulk request are exactly
\* those before the current one, and a bulk payload accepted is the payload
\* of one adapter, the first that did not fail.
C22_OneAtATime ==
  /\ [][(pc \in {"bootstrap", "fill"}) => (NextAdapterAsked \/ RequestOver)]_vars
  /\ [][(pc = "fill" /\ pc' = "fill" /\ n' = n + 1)
          => (\E d \in OneRecs(n) : draws' = mergeByNo(draws, <<d>>))]_vars
  /\ [](pc = "bootstrap" => hist.bulkFrom = 0 /\ hist.bulkFailed = 1..(srcIdx - 1))
  /\ [](hist.bulkFrom # 0 => /\ hist.bulkFailed = 1..(hist.bulkFrom - 1)
                             /\ hist.bulk \in BulkPayloads
                             /\ health.used.sourceId = SOURCES[hist.bulkFrom])
  /\ [](hist.bulkFrom = 0 /\ hist.calledAll /\ pc # "bootstrap" => hist.bulkFailed = Srcs)

\* the first adapter failed the bulk request, the second served it, and the
\* fill got a record after a failure too
C22_Witness ==
  /\ Done
  /\ hist.bulkFrom = 2
  /\ hist.bulkFailed = {1}
  /\ hist.touched # {}

HasReason(r) == \E i \in 1..Len(health.reasons) : health.reasons[i] = r

\* C23: the fill asks for the draw numbers in ascending order from the
\* ledger's highest + 1; when every adapter fails for a number n the fill is
\* over (no request for a greater number follows), the status is degraded
\* with the reason naming n, and the record the ledger holds for each number
\* below n (the last one, should a bulk payload have repeated the number) is
\* still there.
C23_FillStopsAtFailure ==
  /\ [][(pc # "fill" /\ pc' = "fill") => (n' = LastNo(draws') + 1 /\ n' <= TargetNo(health'))]_vars
  /\ [][(pc = "fill" /\ pc' = "fill") => (n' = n \/ n' = n + 1)]_vars
  /\ [][(pc = "fill" /\ pc' # "fill") => (hist'.oneFailedAt = {n} \/ n = TargetNo(health))]_vars
  /\ [][(pc = "fill" /\ hist'.oneFailedAt # hist.oneFailedAt)
          => /\ srcIdx = NumSources
             /\ hist'.oneFailedAt = {n}
             /\ pc' # "fill"
             /\ \A i \in 1..Len(draws) :
                  (draws[i].drwNo < n /\ \A l \in (i + 1)..Len(draws) : draws[l].drwNo # draws[i].drwNo)
                    => \E j \in 1..Len(draws') : draws'[j] = draws[i]]_vars
  /\ [](hist.oneFailedAt # {}
          => /\ pc \in {"tail", "done"}
             /\ health.status = "degraded"
             /\ \E k \in 1..TargetNo(health) :
                  /\ hist.oneFailedAt = {k}
                  /\ HasReason(<<"incremental_fetch_failed_at", k>>)
                  /\ health.used.note = <<"stopped_at", k>>)

\* the fill merged a draw the loaded ledger lacked and then found no adapter
\* for the next one
C23_Witness ==
  /\ Done
  /\ \E k \in hist.oneFailedAt :
       /\ (k - 1) \in hist.touched
       /\ (k - 1) \notin Keys(existing)
       /\ (k - 1) \in Keys(Written)
       /\ k < TargetNo(health)

\* main() stands at the head of the first tail iteration: the consensus patch
\* is done and no draw has been validated yet
BeforeTail == pc = "tail" /\ health.validatedTail.attempted = 1

RecordsAt(ds, k) == {i \in 1..Len(ds) : ds[i].drwNo = k}

\* C24: in every run with a consensus, after the consensus patch and before
\* the tail validation the ledger holds one record for the target draw number
\* and it is the consensus record, whether the ledger came from a bulk
\* payload, from the loaded ledger, from a completed fill or from one that
\* stopped early.
C24_TargetIsConsensus ==
  /\ (pc \in {"tail", "done"} /\ hist.anyLatest) => health.validatedTail.attempted >= 1
  /\ BeforeTail
       => /\ Cardinality(RecordsAt(draws, TargetNo(health))) = 1
          /\ \A i \in RecordsAt(draws, TargetNo(health)) : draws[i] = ConsensusDraw(health)
          /\ n = (IF LastNo(draws) - VALIDATE_LAST_K + 1 > 1 THEN LastNo(draws) - VALIDATE_LAST_K + 1 ELSE 1)

\* a fill that stopped before the target, from a ledger that lacked it
C24_Witness ==
  /\ BeforeTail
  /\ hist.oneFailedAt # {}
  /\ TargetNo(health) \notin hist.touched
  /\ TargetNo(health) \notin Keys(existing)
  /\ hist.bulkFrom = 0

\* ------------------------------------------------- claims: tail validation

TailDone == tailOut # <<>>
TailIn == tailIn[1]
TailOut == tailOut[1]
Responded == Len(TailIn.fetched)
\* the signature most responses carry, and how many carry it
Winning == TailBest(TailIn.fetched)
HasMajority == Responded >= 2 /\ Len(Winning[2]) >= 2
HadWinning == TailIn.n \in Keys(TailIn.draws) /\ drawSig(Find(TailIn.draws, TailIn.n)) = Winning[1]
NewReasons == SubSeq(TailOut.health.reasons, Len(TailIn.health.reasons) + 1, Len(TailOut.health.reasons))

\* C25: for a draw number n of the tail window for which at least 2 adapters
\* responded (and two of the responses agree), a ledger record for n without
\* the winning signature is replaced by the winning record with a patched
\* reason for n, and after the iteration the ledger's record for n has the
\* winning signature.
C25_TailMajorityWins ==
  (TailDone /\ HasMajority)
    => /\ ~HadWinning
            => /\ Winning[2][1] \in {TailOut.draws[i] : i \in 1..Len(TailOut.draws)}
               /\ NewReasons = <<<<"tail_patched_from_consensus", TailIn.n>>>>
       /\ TailIn.n \in Keys(TailOut.draws)
       /\ drawSig(Find(TailOut.draws, TailIn.n)) = Winning[1]

\* C26: for a draw number of the tail window for which fewer than 2 adapters
\* responded, the iteration leaves the ledger, the status, the reasons and
\* the patched and mismatched counters as they were and adds one to the
\* attempted counter.
C26_SkipIsFree ==
  (TailDone /\ Responded < 2)
    => /\ TailOut.draws = TailIn.draws
       /\ TailOut.health.status = TailIn.health.status
       /\ TailOut.health.reasons = TailIn.health.reasons
       /\ TailOut.health.validatedTail.patched = TailIn.health.validatedTail.patched
       /\ TailOut.health.validatedTail.mismatched = TailIn.health.validatedTail.mismatched
       /\ TailOut.health.validatedTail.attempted = TailIn.health.validatedTail.attempted + 1

\* one adapter answered, with a record that differs from the ledger's
C26_Witness ==
  /\ TailDone
  /\ Responded = 1
  /\ TailIn.health.status = "ok"
  /\ TailIn.n \in Keys(TailIn.draws)
  /\ TailIn.fetched[1].drwNo = TailIn.n
  /\ TailIn.fetched[1] # Find(TailIn.draws, TailIn.n)
  /\ TailOut.health.validatedTail.attempted = 1

\* ---------------------------------------- claims: the requested draw number

\* a step of the fill loop in which an adapter's fetch for n succeeded
FillAccepts == pc = "fill" /\ ~NextAdapterAsked /\ hist'.oneFailedAt = hist.oneFailedAt
\* a step of the tail loop in which the majority record for n was merged
TailAccepts == pc = "tail" /\ health'.validatedTail.patched = health.validatedTail.patched + 1

\* C27: a record accepted for the requested draw number n, by the fill or by
\* the tail validation, is stored under key n: the merged record is numbered
\* n and after the step the ledger holds a record numbered n.
C27_StoredUnderRequested ==
  /\ [][FillAccepts => (hist'.touched = hist.touched \cup {n} /\ n \in Keys(draws'))]_vars
  /\ [][TailAccepts => (hist'.tailPatched = hist.tailPatched \cup {n} /\ n \in Keys(draws'))]_vars

\* ------------------------------------- claims: the concurrent latest calls

Succeeded == {latestResults[i].sourceId : i \in 1..Len(latestResults)}
Failed == {latestErrors[i] : i \in 1..Len(latestErrors)}

\* C28: in every interleaving of the fetchLatest calls, fetchLatestAllSources
\* returns only once every adapter's call has settled; at every moment the
\* results hold exactly one entry for each adapter that has succeeded and the
\* errors exactly one for each that has failed, so no failure removes or
\* prevents another adapter's entry.
C28_AllSettled ==
  /\ pc = "latest" => settled # Srcs
  /\ pc \in {"decide", "bootstrap", "fill", "tail", "done", "fatal"} => settled = Srcs
  /\ pc \in {"latest", "decide"}
       => /\ Succeeded \cup Failed = settled
          /\ Succeeded \cap Failed = {}
          /\ Len(latestResults) = Cardinality(Succeeded)
          /\ Len(latestErrors) = Cardinality(Failed)
          /\ \A i \in 1..Len(latestResults) : latestResults[i].draw \in LatestRecs

\* two adapters failed first and the third one's result is still returned
C28_Witness ==
  /\ pc = "decide"
  /\ latestErrors = <<1, 2>>
  /\ Succeeded = {3}

\* ------------------------------------------------- claims: fetchJsonGuarded

G == guardRun[1]
Attempts == Len(G.tried)
\* the text literally begins with markup
BeginsWithMarkup(r) == r.kind = "text" /\ r.text # <<>> /\ r.text[1] = "<"
\* the attempt was answered ok with a text that is JSON
Successful(r) == r.kind = "text" /\ JsonParses(r.text) /\ ~BeginsWithMarkup(r)

\* C29: fetchJsonGuarded makes at most 3 attempts (1 plus 2 retries) and none
\* after a successful one; a body that begins with HTML markup is a failed
\* attempt that never reaches JSON.parse; after 3 failed attempts the call
\* fails with the error of the last attempt.
C29_BoundedRetries ==
  /\ Attempts <= 3
  /\ \A j \in 1..(Attempts - 1) : ~Successful(G.tried[j])
  /\ G.state = "returned" <=> (Attempts >= 1 /\ Successful(G.tried[Attempts]))
  /\ \A j \in 1..Attempts :
       BeginsWithMarkup(G.tried[j])
         => j \notin G.parsed /\ ~(G.state = "returned" /\ j = Attempts)
  /\ (G.state = "thrown") => (Attempts = 3 /\ G.thrown[2] = 3)
  /\ (G.state = "thrown" /\ BeginsWithMarkup(G.tried[3])) => G.thrown = <<"html", 3>>
  /\ (G.state = "thrown" /\ G.tried[3].kind # "text") => G.thrown = <<G.tried[3].kind, 3>>
  /\ (G.state = "loop" /\ Attempts = 3) => G.lastErr[2] = 3

\* three failed attempts of different kinds, the last an HTML page
C29_Witness ==
  /\ G.state = "thrown"
  /\ G.tried[1].kind = "abort"
  /\ G.tried[2].kind = "text" /\ G.tried[2].text = <<"{">>
  /\ BeginsWithMarkup(G.tried[3])
  /\ G.thrown = <<"html", 3>>

\* ------------------------------------------- claims: the adapter operations

AdapterDone == adapterOut # <<>>
Call == adapterIn[1]
Ended == adapterOut[1]
Rejected(it) == Invalid \in normalizeDraw(it)
IsList == Call.op = "fetchAll" /\ Call.json.t = "array"
\* the items of a bulk payload the normalizer accepts
ValidAt == {i \in 1..Len(Call.json.a) : ~Rejected(Call.json.a[i])}
\* the payload holds a record the normalizer rejects
HoldsRejected ==
  IF Call.op = "fetchAll"
  THEN IsList /\ \E i \in 1..Len(Call.json.a) : Rejected(Call.json.a[i])
  ELSE Rejected(Call.json)

WinnerAgreed == hist.anyLatest /\ ConsensusDraw(health) \in hist.latestPairs
AfterDecide == pc \in {"bootstrap", "fill", "tail", "done"} /\ hist.anyLatest

\* C31: a run ends with status ok only if the winning latest record was
\* returned identically by at least 2 adapters; when fewer than 2 agree on it
\* the status is degraded from then on and the reasons record the missing
\* consensus.
C31_OkNeedsAgreement ==
  /\ (Done /\ health.status = "ok") => WinnerAgreed
  /\ (AfterDecide /\ ~WinnerAgreed)
       => /\ health.status = "degraded"
          /\ HasReason(<<"latest_consensus_not_2of3">>)
          /\ ~health.latestConsensus[1].agreed

\* two adapters answered with different records of the target draw
C31_Witness ==
  /\ Done
  /\ hist.anyLatest
  /\ ~WinnerAgreed
  /\ Cardinality(hist.byOrder) >= 2
  /\ health.reasons = <<<<"latest_consensus_not_2of3">>>>

ReasonsKept ==
  /\ Len(health'.reasons) >= Len(health.reasons)
  /\ SubSeq(health'.reasons, 1, Len(health.reasons)) = health.reasons

\* C32: throughout a run the status is degraded exactly when the list of
\* reasons is not empty; the status never goes from degraded back to ok, and
\* reasons are only appended.
C32_StatusAndReasons ==
  /\ [](health.status \in {"ok", "degraded"})
  /\ [](health.status = "degraded" <=> health.reasons # <<>>)
  /\ [][(health.status = "degraded") => (health'.status = "degraded")]_vars
  /\ [][ReasonsKept]_vars

\* a run that degraded three times over
C32_Witness ==
  /\ Done
  /\ Len(health.reasons) >= 3
  /\ health.reasons[1] = <<"latest_consensus_not_2of3">>
  /\ health.status = "degraded"

\* ------------------------------------------- claims: the windows of makeFreq

\* the places of the last min(win, N) draws of the ledger
WindowPlaces(win) ==
  LET N == Len(FreqOf)
      M == IF win < N THEN win ELSE N
  IN (N - M + 1)..N
MainInWindow(win, x) == {q \in WindowPlaces(win) \X (1..6) : FreqOf[q[1]].numbers[q[2]] = x}
BonusInWindow(win, x) == {j \in WindowPlaces(win) : FreqOf[j].bonus = x}

\* C33: for every ledger sorted ascending by draw number and every window
\* size W of 10, 20, 30, the window tables of makeFreq count exactly the
\* occurrences in the last min(W, N) draws, drawCount is min(W, N), from is
\* the date of the oldest draw of the window and to the date of the newest,
\* and no window count exceeds the overall count.
C33_Windows ==
  FreqDone
    => \A win \in {10, 20, 30} :
         LET N == Len(FreqOf)
             M == IF win < N THEN win ELSE N
             w == Stats.recent[win]
         IN /\ w.drawCount = M
            /\ N >= 1 => (w.from = <<FreqOf[N - M + 1].date>> /\ w.to = <<FreqOf[N].date>>)
            /\ N >= 1 => \A j \in WindowPlaces(win) :
                           /\ FreqOf[N - M + 1].drwNo <= FreqOf[j].drwNo
                           /\ FreqOf[j].drwNo <= FreqOf[N].drwNo
            /\ \A x \in 1..45 :
                 /\ w.main[x] = Cardinality(MainInWindow(win, x))
                 /\ w.bonus[x] = Cardinality(BonusInWindow(win, x))
                 /\ w.main[x] <= Stats.overall.main[x]
                 /\ w.bonus[x] <= Stats.overall.bonus[x]

\* a ledger of 12 draws: window 10 leaves out the two oldest, of which one
\* holds 45; windows 20 and 30 take them all
C33_Witness ==
  /\ FreqDone
  /\ Len(FreqOf) = 12
  /\ Stats.recent[10].drawCount = 10
  /\ Stats.recent[20].drawCount = 12
  /\ Stats.recent[10].from = <<DrawDates[3]>>
  /\ Stats.recent[10].main[45] = 0
  /\ Stats.overall.main[45] >= 1

\* ------------------------------------- claims: fetchRangeConcurrently

R == rangeRun[1]
Settled == R.promise # "pending"

\* C34: the promise of fetchRangeConcurrently(from, to, concurrency)
\* eventually settles when every fetchDraw call settles, the empty range
\* from > to included.
C34_Settles == <>Settled

InFlight == DOMAIN R.flight
Range == R.from..R.to

\* C35: in every interleaving of the workers the fetches in flight never
\* exceed concurrency, every number of the range is dispatched exactly once
\* (its fetch being tried once more after an error), and when the promise
\* resolves the output holds exactly the records of the numbers whose fetch
\* returned a draw, each once.
C35_BoundedWorkers ==
  /\ R.active <= R.concurrency
  /\ R.active = Cardinality(InFlight)
  /\ InFlight \subseteq Range
  /\ \A k \in DOMAIN R.dispatched :
       /\ R.dispatched[k] = (IF R.started /\ k >= R.from /\ k < R.cursor THEN 1 ELSE 0)
       /\ R.calls[k] >= R.dispatched[k]
       /\ R.calls[k] <= 2 * R.dispatched[k]
  /\ R.promise = "resolved"
       => /\ R.active = 0
          /\ \A k \in Range : R.dispatched[k] = 1
          /\ {R.out[i] : i \in 1..Len(R.out)} = R.gave
          /\ Len(R.out) = Cardinality(R.gave)
          /\ R.gave \subseteq Range

\* three numbers and two workers: the fetch of 1 was tried twice and its draw
\* arrived after that of 2, the fetch of 3 found no draw
C35_Witness ==
  /\ R.promise = "resolved"
  /\ R.from = 1 /\ R.to = 3 /\ R.concurrency = 2
  /\ R.calls[1] = 2
  /\ R.out = <<2, 1>>

\* --------------------------------------------- claims: findMaxDrawNo

FindDone == findOut # <<>>
LastKnown == findIn[1].lastKnown
Held == findIn[1].M
FindEnd == findOut[1]

\* C36: with draws exactly for 1..M, findMaxDrawNo(0) returns M for every M
\* from 0 up to the abort bound of the exponential search, and
\* findMaxDrawNo(lastKnown) with 0 < lastKnown <= M returns the smaller of M
\* and lastKnown + 50.
C36_FindsMax ==
  FindDone
    => /\ (LastKnown = 0 /\ Held <= ABORT_HIGH) => FindEnd = FoundMax(Held)
       /\ (0 < LastKnown /\ LastKnown <= Held)
            => FindEnd = FoundMax(IF Held < LastKnown + 50 THEN Held ELSE LastKnown + 50)

====
